---- MODULE Spec2Model ----
(***************************************************************************)
(* A model of the micro-frontend runtime of simplified-mfe/src/index.js:   *)
(* the EventBus (registry, handler lists, synchronous dispatch with        *)
(* fan-out) and the Sandbox (iframe transport, lifecycle, message relay).  *)
(***************************************************************************)
EXTENDS Integers, Sequences, FiniteSets, TLC

(***************************************************************************)
(* Bounds of the model.                                                    *)
(***************************************************************************)
\* the number of handler registrations host code makes through $on / $onAll
MaxRegs == 2

(***************************************************************************)
(* Event names are character sequences, so that the prefix test of the     *)
(* fan-out rule is computed as String.prototype.startsWith computes it.    *)
(***************************************************************************)
StateX == <<"s", "t", "a", "t", "e", ":", "x">>
Priv == <<"_", "p">>
Ping == <<"p", "i", "n", "g">>
\* the events host code registers handlers for, and the events it emits
RegEvents == {StateX, Ping}
Events == RegEvents \cup {Priv}
\* the events of the StateManager that is connected under the name 'main'
\* (parent-app/src/App.js line 15): `state:update:${name}` and `state:get:${name}`
StateUpdate == <<"s", "t", "a", "t", "e", ":", "u", "p", "d", "a", "t", "e", ":",
                 "m", "a", "i", "n">>
StateGet == <<"s", "t", "a", "t", "e", ":", "g", "e", "t", ":", "m", "a", "i", "n">>
\* the keys of the handler maps of the model
BusEvents == Events \cup {StateUpdate, StateGet}

StartsWith(s, p) == Len(s) >= Len(p) /\ SubSeq(s, 1, Len(p)) = p

\* index.js line 109: the events that are not broadcast to other buses
IsPrivate(e) ==
    StartsWith(e, <<"s", "t", "a", "t", "e", ":">>) \/ StartsWith(e, <<"_">>)

(***************************************************************************)
(* Bus instances and registry ids.  "main" is the exported host bus; "s1"  *)
(* and "s2" are further EventBus instances (the buses Sandboxes own).  Two *)
(* instances constructed with the same id share one events object.         *)
(***************************************************************************)
Inst == {"main", "s1", "s2"}
Ids == {"main", "A", "B"}
NoBus == "none"

(***************************************************************************)
(* Handlers are references; each has a fixed behaviour when it is called:  *)
(*   plain    returns                                                      *)
(*   thrower  throws                                                       *)
(*   once     unregisters itself from the list it was called from          *)
(*   adder    registers "plain" in the list it was called from             *)
(***************************************************************************)
Handlers == {"plain", "thrower", "once", "adder"}
Throwers == {"thrower"}
ALL == <<"_", "a", "l", "l">>

VARIABLES
    busId,      \* instance -> its id, NoBus before construction
    events,     \* instance -> [event -> handler list]   (this.events)
    allEvents,  \* instance -> listen-all handler list   (this.allEvents)
    aliased,    \* s1 and s2 hold the same events object
    registry,   \* id -> the instance whose events object the registry maps id to
    regOrder,   \* the ids of the registry Map in insertion order
    emitted     \* the last call when it was $emit or $clear: what it did

(***************************************************************************)
(* Sandboxes.  Sandbox s owns the bus instance s; its guest is the         *)
(* application in its primary iframe.                                      *)
(***************************************************************************)
Sandboxes == {"s1", "s2"}
NoSandbox == "none"

VARIABLES
    hooks,      \* whether start() was given lifecycle hooks (options.lifecycles)
    sb,         \* sandbox -> the fields of the Sandbox object
    sbRegistry, \* name -> sandbox: window.__MFE_SANDBOX_REGISTRY
    count,      \* sandbox -> how often each hook ran and each command was sent
    toGuest,    \* sandbox -> messages posted to the primary iframe's window
    toShadow,   \* sandbox -> messages posted to the shadow iframe's window
    toHost,     \* sandbox -> messages its primary guest posted to the host window
    guest,      \* sandbox -> the state of the guest window (initChildApp)
    gLog,       \* sandbox -> the calls of the guest's handlers
    hist,       \* what was emitted while the receiving guests were mounted
    sm,         \* the host's StateManager (globalState, line 266)
    mgrs,       \* further StateManagers of the host window, and what was set on them
    pre         \* the hidden iframes of preloadApp, and the messages posted to them

\* this.name, which is also the id of this.bus (lines 278 and 283)
Name(s) == sb[s].name

busVars == <<busId, events, allEvents, aliased, registry, regOrder, emitted>>
sbVars == <<hooks, sb, sbRegistry, count, toGuest, toShadow, toHost, guest, gLog, hist, sm, mgrs, pre>>
vars == <<busId, events, allEvents, aliased, registry, regOrder, emitted,
          hooks, sb, sbRegistry, count, toGuest, toShadow, toHost, guest, gLog, hist, sm, mgrs, pre>>

EmptyEvents == [e \in BusEvents |-> << >>]

\* Sandbox constructor, lines 275-306, before createIframe
NewSandbox ==
    [created |-> FALSE, degrade |-> FALSE, iframe |-> "null", shadowRoot |-> FALSE,
     shadowIframe |-> "null", element |-> FALSE, listening |-> FALSE,
     patched |-> FALSE, ready |-> FALSE, mountFlag |-> FALSE, unmountFlag |-> FALSE,
     mountPc |-> "idle", shadowTimer |-> FALSE, unmounting |-> 0,
     unmountDone |-> FALSE, destroyed |-> FALSE, name |-> "", restart |-> 0, restartDg |-> FALSE]
NoCount ==
    [beforeMount |-> 0, afterMount |-> 0, beforeUnmount |-> 0, afterUnmount |-> 0,
     cleared |-> 0, mountSent |-> 0, shadowMountSent |-> 0, unmountSent |-> 0]
\* a guest window before the application in it has run, lines 927-1093
NoGuest ==
    [listening |-> FALSE, inited |-> FALSE, handlers |-> << >>, emits |-> 0, app |-> "none"]
NoHist ==
    [hostEmit |-> [s \in Sandboxes |-> FALSE], guestEmit |-> [s \in Sandboxes |-> FALSE],
     aliveStarts |-> 0, aliveHandle |-> [s \in Sandboxes |-> FALSE],
     startFailed |-> "none", destroyNoop |-> FALSE,
     busEmits |-> 0, emitAfterDestroy |-> FALSE,
     stray |-> FALSE, malformed |-> FALSE, asked |-> FALSE]

(***************************************************************************)
(* The StateManager.  Its state is a JavaScript object with string keys:   *)
(* a sequence of <<key, value>> pairs in insertion order, no key twice.    *)
(***************************************************************************)
Keys == {"a", "b"}
Vals == {1, 2}
\* the listener functions host code subscribes
Listeners == {"l1", "l2"}

HasKey(obj, k) == \E n \in 1..Len(obj) : obj[n][1] = k

\* obj[k] = v: an own key keeps its place, a new key goes to the end
Put(obj, k, v) ==
    IF HasKey(obj, k)
    THEN [n \in 1..Len(obj) |-> IF obj[n][1] = k THEN <<k, v>> ELSE obj[n]]
    ELSE Append(obj, <<k, v>>)

MergeReplaces(obj, p) == p

\* { ...obj, ...p }, lines 173 and 204
RECURSIVE Merge(_, _)
Merge(obj, p) ==
    IF p = << >> THEN obj ELSE Merge(Put(obj, Head(p)[1], Head(p)[2]), Tail(p))

\* JSON.stringify of an object whose values are numbers, as its tokens
RECURSIVE Stringify(_)
Stringify(obj) ==
    IF obj = << >>
    THEN <<"{", "}">>
    ELSE LET rest == Stringify(Tail(obj))
             num == IF Head(obj)[2] = 1 THEN "1" ELSE "2"
         IN <<"{", Head(obj)[1], ":", num>>
               \o (IF Len(obj) > 1 THEN <<",">> ELSE << >>) \o Tail(rest)

\* new StateManager({}), lines 153-158 and 266, and what has been done with it
NewManager ==
    [state |-> << >>, listeners |-> << >>, bus |-> NoBus, name |-> << >>,
     getTimer |-> FALSE, debounce |-> FALSE,
     \* history: setState calls, the expected snapshot, listener calls
     sets |-> 0, expect |-> [k \in Keys |-> 0], notified |-> 0,
     pair |-> [n |-> 0, p |-> << >>, calls |-> 0, calls2 |-> 0, casts2 |-> 0],
     lastSet |-> [changed |-> FALSE, cast |-> FALSE, p |-> << >>, mounted |-> FALSE]]

\* two further StateManagers, constructed with {} and connected to nothing
Mgrs == {"m1", "m2"}
NoManagers ==
    [state |-> [m \in Mgrs |-> << >>], on |-> << >>,
     getTimer |-> [m \in Mgrs |-> FALSE], debounce |-> [m \in Mgrs |-> FALSE],
     \* history: setState calls, the last value written to each key by a call
     \* on a connected manager, whether such a call changed nothing
     sets |-> 0, last |-> [k \in Keys |-> 0], noop |-> FALSE]

\* preloadApp has not been called: no hidden iframe, nothing posted
NoPreload == [frames |-> << >>, posted |-> << >>, skipped |-> FALSE]

\* no Sandbox has been started
SbIdle ==
    /\ sb = [s \in Sandboxes |-> NewSandbox]
    /\ sbRegistry = [n \in {"A", "B"} |-> NoSandbox]
    /\ count = [s \in Sandboxes |-> NoCount]
    /\ toGuest = [s \in Sandboxes |-> << >>]
    /\ toShadow = [s \in Sandboxes |-> << >>]
    /\ toHost = [s \in Sandboxes |-> << >>]
    /\ guest = [s \in Sandboxes |-> NoGuest]
    /\ gLog = [s \in Sandboxes |-> << >>]
    /\ hist = NoHist
    /\ mgrs = NoManagers
    /\ pre = NoPreload
EmptyStore == [ev |-> [i \in Inst |-> EmptyEvents], all |-> [i \in Inst |-> << >>]]
NoEmit == [op |-> "none", bus |-> NoBus, event |-> << >>, pre |-> EmptyStore,
           log |-> << >>, escaped |-> FALSE]

(***************************************************************************)
(* Array helpers (Array.prototype.includes / indexOf / splice / push).     *)
(***************************************************************************)
Includes(list, h) == \E k \in 1..Len(list) : list[k] = h

\* 0 stands for JavaScript's -1
IndexOf(list, h) ==
    IF Includes(list, h)
    THEN CHOOSE k \in 1..Len(list) :
            list[k] = h /\ \A j \in 1..(k - 1) : list[j] # h
    ELSE 0

Splice1(list, k) == SubSeq(list, 1, k - 1) \o SubSeq(list, k + 1, Len(list))

\* $on lines 43-46, $onAll lines 52-54
OnList(list, h) == IF Includes(list, h) THEN list ELSE Append(list, h)

OffListKeepsAll(list, h) == list

\* $off lines 62-65, $offAll lines 76-79
OffList(list, h) ==
    LET k == IndexOf(list, h) IN IF k # 0 THEN Splice1(list, k) ELSE list

(***************************************************************************)
(* The handler store st = [ev, all] and the bus methods acting on it.  A   *)
(* mutation through an instance reaches every instance that holds the same *)
(* events object.                                                          *)
(***************************************************************************)
Peers(i) == IF aliased /\ i \in {"s1", "s2"} THEN {"s1", "s2"} ELSE {i}

ListOf(st, i, key) == IF key = ALL THEN st.all[i] ELSE st.ev[i][key]

SetList(st, i, key, list) ==
    IF key = ALL
    THEN [st EXCEPT !.all = [j \in Inst |-> IF j \in Peers(i) THEN list ELSE st.all[j]]]
    ELSE [st EXCEPT !.ev = [j \in Inst |->
             IF j \in Peers(i) THEN [st.ev[j] EXCEPT ![key] = list] ELSE st.ev[j]]]

StOn(st, i, key, h) == SetList(st, i, key, OnList(ListOf(st, i, key), h))
StOff(st, i, key, h) == SetList(st, i, key, OffList(ListOf(st, i, key), h))

RegCount(st) ==
    LET n(i) == Len(st.all[i]) + Len(st.ev[i][StateX]) + Len(st.ev[i][Priv])
                + Len(st.ev[i][Ping])
    IN n("main") + n("s1") + n("s2")

(***************************************************************************)
(* Dispatch.  A handler called from the list `key` of instance i acts on   *)
(* that list through the bus methods ($off / $on, $offAll / $onAll).       *)
(***************************************************************************)
Effect(st, i, key, h) ==
    CASE h = "once"    -> StOff(st, i, key, "once")
      [] h = "adder"   -> StOn(st, i, key, "plain")
      [] OTHER         -> st

EscapesUncaught(threw) == threw

\* the try/catch around every handler call (lines 91-95, 101-105, 117-121,
\* 126-130): whether a handler's error leaves the forEach callback
Escapes(threw) == FALSE

(***************************************************************************)
(* Array.prototype.forEach over the live array: the length is read once,   *)
(* before the first call; at each index the array is read again, and an    *)
(* index that is no longer present is passed over.                         *)
(* run = [st, log, aborted]; thr is the set of handlers that throw.        *)
(***************************************************************************)
RECURSIVE ForEach(_, _, _, _, _, _, _)
ForEach(run, i, key, k, len, phase, thr) ==
    IF k > len \/ run.aborted
    THEN run
    ELSE LET cur == ListOf(run.st, i, key) IN
         IF k > Len(cur)
         THEN ForEach(run, i, key, k + 1, len, phase, thr)
         ELSE LET h == cur[k] IN
              ForEach([st      |-> Effect(run.st, i, key, h),
                       log     |-> Append(run.log, [bus |-> i, phase |-> phase, h |-> h]),
                       aborted |-> Escapes(h \in thr)],
                      i, key, k + 1, len, phase, thr)

\* lines 110-133: the registry Map in insertion order, the emitting bus's id
\* passed over; handlers first, then the listen-all handlers of each entry
RECURSIVE FanOut(_, _, _, _, _)
FanOut(run, i, e, n, thr) ==
    IF n > Len(regOrder)
    THEN run
    ELSE LET id == regOrder[n]
             j == registry[id]
         IN IF id = busId[i]
            THEN FanOut(run, i, e, n + 1, thr)
            ELSE LET r1 == ForEach(run, j, e, 1, Len(ListOf(run.st, j, e)), "remote", thr)
                     r2 == ForEach(r1, j, ALL, 1, Len(ListOf(r1.st, j, ALL)), "remoteAll", thr)
                 IN FanOut(r2, i, e, n + 1, thr)

EmitRunAllFirst(st0, i, e, thr) ==
    LET r0 == [st |-> st0, log |-> << >>, aborted |-> FALSE]
        r1 == ForEach(r0, i, ALL, 1, Len(ListOf(st0, i, ALL)), "localAll", thr)
        r2 == ForEach(r1, i, e, 1, Len(ListOf(r1.st, i, e)), "local", thr)
    IN IF IsPrivate(e) \/ r2.aborted THEN r2 ELSE FanOut(r2, i, e, 1, thr)

\* EventBus.$emit, lines 84-137
EmitRun(st0, i, e, thr) ==
    LET r0 == [st |-> st0, log |-> << >>, aborted |-> FALSE]
        r1 == ForEach(r0, i, e, 1, Len(ListOf(st0, i, e)), "local", thr)
        r2 == ForEach(r1, i, ALL, 1, Len(ListOf(r1.st, i, ALL)), "localAll", thr)
    IN IF IsPrivate(e) \/ r2.aborted THEN r2 ELSE FanOut(r2, i, e, 1, thr)

Store == [ev |-> events, all |-> allEvents]

(***************************************************************************)
(* The EventBus operations.                                                *)
(***************************************************************************)
\* the buses and the registry as one value b, so that a constructor call
\* and a $clear can follow each other within one step
BusState ==
    [busId |-> busId, events |-> events, allEvents |-> allEvents,
     aliased |-> aliased, registry |-> registry, regOrder |-> regOrder]

SetBus(b) ==
    /\ busId' = b.busId
    /\ events' = b.events
    /\ allEvents' = b.allEvents
    /\ aliased' = b.aliased
    /\ registry' = b.registry
    /\ regOrder' = b.regOrder

\* constructor, lines 17-36
ConstructIn(b, i, id) ==
    IF id \in {b.regOrder[n] : n \in 1..Len(b.regOrder)}
    THEN \* the registry's events object for id is taken over and kept
         [b EXCEPT !.busId[i] = id,
                   !.events[i] = b.events[b.registry[id]],
                   !.allEvents[i] = b.allEvents[b.registry[id]],
                   !.aliased = TRUE]
    ELSE [b EXCEPT !.busId[i] = id,
                   !.events[i] = EmptyEvents,
                   !.allEvents[i] = << >>,
                   !.registry[id] = i,
                   !.regOrder = Append(@, id)]

Construct(i, id) == SetBus(ConstructIn(BusState, i, id))

\* $clear, lines 140-146: a new events object, which replaces the registry's
ClearIn(b, i) ==
    [b EXCEPT !.events[i] = EmptyEvents,
              !.allEvents[i] = << >>,
              !.registry[b.busId[i]] = i,
              !.aliased = IF i \in {"s1", "s2"} THEN FALSE ELSE @]

ClearBus(i) == SetBus(ClearIn(BusState, i))

On(i, e, h) ==
    /\ UNCHANGED sbVars
    /\ busId[i] # NoBus
    /\ RegCount(Store) < MaxRegs
    /\ events' = StOn(Store, i, e, h).ev
    /\ emitted' = NoEmit
    /\ UNCHANGED <<busId, allEvents, aliased, registry, regOrder>>

OnAll(i, h) ==
    /\ UNCHANGED sbVars
    /\ busId[i] # NoBus
    /\ RegCount(Store) < MaxRegs
    /\ allEvents' = StOn(Store, i, ALL, h).all
    /\ emitted' = NoEmit
    /\ UNCHANGED <<busId, events, aliased, registry, regOrder>>

\* $off(event, callback)
Off(i, e, h) ==
    /\ UNCHANGED sbVars
    /\ busId[i] # NoBus
    /\ events' = StOff(Store, i, e, h).ev
    /\ emitted' = NoEmit
    /\ UNCHANGED <<busId, allEvents, aliased, registry, regOrder>>

\* $off(event), lines 66-69
OffEvent(i, e) ==
    /\ UNCHANGED sbVars
    /\ busId[i] # NoBus
    /\ events' = SetList(Store, i, e, << >>).ev
    /\ emitted' = NoEmit
    /\ UNCHANGED <<busId, allEvents, aliased, registry, regOrder>>

OffAll(i, h) ==
    /\ UNCHANGED sbVars
    /\ busId[i] # NoBus
    /\ allEvents' = StOff(Store, i, ALL, h).all
    /\ emitted' = NoEmit
    /\ UNCHANGED <<busId, events, aliased, registry, regOrder>>

Clear(i) ==
    /\ UNCHANGED sbVars
    /\ busId[i] # NoBus
    /\ ClearBus(i)
    /\ emitted' = [NoEmit EXCEPT !.op = "clear", !.bus = i]

Emit(i, e) ==
    /\ UNCHANGED sbVars
    /\ busId[i] # NoBus
    /\ LET r == EmitRun(Store, i, e, Throwers) IN
        /\ events' = r.st.ev
        /\ allEvents' = r.st.all
        /\ emitted' = [op |-> "emit", bus |-> i, event |-> e, pre |-> Store,
                       log |-> r.log, escaped |-> r.aborted]
    /\ UNCHANGED <<busId, aliased, registry, regOrder>>

\* three buses constructed: new EventBus('main') (line 269), then
\* new EventBus('A') and new EventBus('B')
BusInit ==
    /\ busId = [i \in Inst |-> CASE i = "main" -> "main" [] i = "s1" -> "A" [] OTHER -> "B"]
    /\ events = [i \in Inst |-> EmptyEvents]
    /\ allEvents = [i \in Inst |-> << >>]
    /\ aliased = FALSE
    /\ registry = [id \in Ids |-> CASE id = "main" -> "main" [] id = "A" -> "s1" [] OTHER -> "s2"]
    /\ regOrder = <<"main", "A", "B">>
    /\ emitted = NoEmit
    /\ hooks = FALSE
    /\ SbIdle
    /\ sm = NewManager

BusNext ==
    \/ \E i \in Inst, e \in RegEvents, h \in Handlers : On(i, e, h)
    \/ \E i \in Inst, h \in Handlers : OnAll(i, h)
    \/ \E i \in Inst, e \in RegEvents, h \in Handlers : Off(i, e, h)
    \/ \E i \in Inst, e \in RegEvents : OffEvent(i, e)
    \/ \E i \in Inst, h \in Handlers : OffAll(i, h)
    \/ \E i \in Inst : Clear(i)
    \/ \E i \in Inst, e \in Events : Emit(i, e)

SpecBus == BusInit /\ [][BusNext]_vars

(***************************************************************************)
(* Properties of the EventBus, checked under SpecBus.                      *)
(***************************************************************************)
Emitted == emitted.op = "emit"
Calls(j, phase, h) ==
    Cardinality({k \in 1..Len(emitted.log) :
        emitted.log[k] = [bus |-> j, phase |-> phase, h |-> h]})
NoDup(list) == \A a, b \in 1..Len(list) : list[a] = list[b] => a = b

\* the handler lists never hold a handler twice (supports C1)
NoDuplicateHandlers ==
    \A i \in Inst : NoDup(allEvents[i]) /\ \A e \in Events : NoDup(events[i][e])

\* C1: no handler list holds a handler reference twice, and every handler that
\* is registered for an event on a bus is called exactly once by an emit of
\* that event on that bus.
C1_OneCallPerEmit ==
    /\ NoDuplicateHandlers
    /\ Emitted =>
         \A h \in Handlers :
            Includes(emitted.pre.ev[emitted.bus][emitted.event], h)
               => Calls(emitted.bus, "local", h) = 1

\* C2: an emit of a private event ('state:' or '_' prefix) calls no handler of
\* another bus; an emit of any other event calls each handler registered for
\* it on every other registered bus exactly once.
C2_FanOutIsolation ==
    Emitted =>
      /\ IsPrivate(emitted.event) =>
            \A k \in 1..Len(emitted.log) : emitted.log[k].bus = emitted.bus
      /\ ~IsPrivate(emitted.event) =>
            \A j \in Inst \ {emitted.bus}, h \in Handlers :
               Includes(emitted.pre.ev[j][emitted.event], h)
                  => Calls(j, "remote", h) = 1

\* the private half of C2 alone: a private event never leaves the emitting bus
PrivateStaysLocal ==
    (Emitted /\ IsPrivate(emitted.event)) =>
        \A k \in 1..Len(emitted.log) : emitted.log[k].bus = emitted.bus

PhaseRank(phase) ==
    CASE phase = "local" -> 1 [] phase = "localAll" -> 2 [] OTHER -> 3
PreList(entry) ==
    IF entry.phase \in {"local", "remote"}
    THEN emitted.pre.ev[entry.bus][emitted.event]
    ELSE emitted.pre.all[entry.bus]

\* C3: one emit calls this bus's handlers for the event first, in registration
\* order, then this bus's listen-all handlers in registration order, and only
\* then, for a non-private event, the handlers and the listen-all handlers of
\* the other registered buses.
C3_DispatchOrder ==
    Emitted =>
      LET log == emitted.log IN
      /\ \A k \in 1..Len(log) :
            /\ (PhaseRank(log[k].phase) < 3) = (log[k].bus = emitted.bus)
            /\ PhaseRank(log[k].phase) = 3 => ~IsPrivate(emitted.event)
      /\ \A a, b \in 1..Len(log) : a < b =>
            /\ PhaseRank(log[a].phase) <= PhaseRank(log[b].phase)
            /\ (log[a].bus = log[b].bus /\ log[a].phase = "remoteAll")
                  => log[b].phase = "remoteAll"
            /\ (log[a].bus = log[b].bus /\ log[a].phase = log[b].phase
                /\ Includes(PreList(log[a]), log[a].h)
                /\ Includes(PreList(log[b]), log[b].h))
                  => IndexOf(PreList(log[a]), log[a].h)
                        < IndexOf(PreList(log[b]), log[b].h)

C3_Witness ==
    /\ Emitted
    /\ Len(emitted.log) = 2
    /\ emitted.log[1].phase = "local"
    /\ emitted.log[2].phase \in {"localAll", "remote"}

\* C4: a handler that throws changes nothing about the emit: the calls made
\* are those the emit makes when that handler returns normally, in the same
\* order, and the error does not leave emit.
C4_ErrorIsolation ==
    Emitted =>
      /\ ~emitted.escaped
      /\ emitted.log = EmitRun(emitted.pre, emitted.bus, emitted.event, {}).log

C4_Witness ==
    /\ Emitted
    /\ Len(emitted.log) = 2
    /\ emitted.log[1].h \in Throwers

\* C5: every handler that is registered for the event on the emitting bus when
\* emit begins, and is not removed during the emit, is called exactly once by
\* it, whatever the handlers do to the handler list.
C5_TolerantOfModification ==
    Emitted =>
      \A h \in Handlers :
         (/\ Includes(emitted.pre.ev[emitted.bus][emitted.event], h)
          /\ Includes(events[emitted.bus][emitted.event], h))
            => Calls(emitted.bus, "local", h) = 1

Without(list, h) == SelectSeq(list, LAMBDA x : x # h)
OthersSame(i) ==
    \A j \in Inst \ {i} : events'[j] = events[j] /\ allEvents'[j] = allEvents[j]

\* C6: off(event, handler) removes that handler from that event and nothing
\* else, off(event) all handlers of that event and nothing else, offAll(handler)
\* that listen-all handler and nothing else, clear() all handlers and listen-all
\* handlers of this bus; no removal changes the handlers of another bus, and
\* after clear() an emit on this bus calls no handler of this bus.
C6_RemovalFrame ==
    [][/\ (emitted'.op = "none" /\ allEvents' = allEvents) =>
            \A i \in Inst :
              /\ \A e \in RegEvents, h \in Handlers : Off(i, e, h) =>
                  /\ events'[i][e] = Without(events[i][e], h)
                  /\ \A e2 \in Events \ {e} : events'[i][e2] = events[i][e2]
                  /\ OthersSame(i)
              /\ \A e \in RegEvents : OffEvent(i, e) =>
                  /\ events'[i][e] = << >>
                  /\ \A e2 \in Events \ {e} : events'[i][e2] = events[i][e2]
                  /\ OthersSame(i)
       /\ (emitted'.op = "none" /\ events' = events) =>
            \A i \in Inst, h \in Handlers : OffAll(i, h) =>
                  /\ allEvents'[i] = Without(allEvents[i], h)
                  /\ OthersSame(i)
       /\ emitted'.op = "clear" =>
            \A i \in Inst : Clear(i) =>
                  /\ events'[i] = EmptyEvents
                  /\ allEvents'[i] = << >>
                  /\ OthersSame(i)
                  /\ \A id \in Ids \ {busId[i]} : registry'[id] = registry[id]
                  /\ \A e \in Events :
                       LET log == EmitRun([ev |-> events', all |-> allEvents'],
                                          i, e, Throwers).log
                       IN \A k \in 1..Len(log) : log[k].bus # i
      ]_vars

C6_Witness ==
    /\ emitted.op = "clear"
    /\ \E j \in Inst \ {emitted.bus} : events[j][Ping] # << >>

(***************************************************************************)
(* The Sandbox: one hidden iframe per application, the host's message      *)
(* handler, and the guest side of the protocol (initChildApp).  Messages   *)
(* posted to a window are delivered in the order they were posted.         *)
(***************************************************************************)
MaxPending == 2      \* unmount() calls that may wait in their settle interval
MaxGuestEmits == 1   \* $emit calls of one guest
MaxAliveStarts == 1  \* startApp calls with alive: true
MaxBusEmits == 1     \* $emit calls host code makes on a Sandbox's bus

Payloads == {<< >>, <<42>>}

Envelope(type, event, payload, action) ==
    [type |-> type, event |-> event, payload |-> payload, action |-> action]
SpreadFirstOnly(payload) == IF payload = << >> THEN << >> ELSE <<payload[1]>>

\* ...payload in a call (lines 432 and 1061): the elements of the array, in
\* index order, as the arguments of the call
SpreadPayload(payload) == [k \in 1..Len(payload) |-> payload[k]]

InitMsg == Envelope("mfe-init", << >>, << >>, "")
ReadyMsg == Envelope("mfe-ready", << >>, << >>, "")
EventMsg(e, args) == Envelope("mfe-event", e, args, "")
Lifecycle(a) == Envelope("mfe-lifecycle", << >>, << >>, a)

\* the part of the state that the Sandbox methods act on
World == [sb |-> sb, count |-> count, tg |-> toGuest, ts |-> toShadow]

Apply(w) ==
    /\ sb' = w.sb
    /\ count' = w.count
    /\ toGuest' = w.tg
    /\ toShadow' = w.ts

\* this.iframe && this.iframe.contentWindow
HasWindow(w, s) == w.sb[s].iframe \in {"loading", "loaded"}
\* this.shadowIframe && this.shadowIframe.contentWindow
HasShadowWindow(w, s) == w.sb[s].shadowIframe = "attached"

PostToIframe(w, s, m) ==
    IF HasWindow(w, s) THEN [w EXCEPT !.tg[s] = Append(@, m)] ELSE w
PostToShadow(w, s, m) ==
    IF HasShadowWindow(w, s) THEN [w EXCEPT !.ts[s] = Append(@, m)] ELSE w

Bump(w, s, field) == [w EXCEPT !.count[s][field] = @ + 1]

\* this.lifecycles.X(this.iframe.contentWindow): with a hook given and
\* this.iframe null, reading contentWindow throws a TypeError
HookThrows(w, s) == hooks /\ w.sb[s].iframe = "null"
RunHook(w, s, field) == IF hooks THEN Bump(w, s, field) ELSE w

\* mount() after the wait for ready, lines 588-614
MountProceed(w, s) ==
    IF HookThrows(w, s)
    THEN [w EXCEPT !.sb[s].mountPc = "done"]
    ELSE LET w1 == RunHook(w, s, "beforeMount")
             w2 == IF HasWindow(w1, s)
                   THEN Bump(PostToIframe(w1, s, Lifecycle("mount")), s, "mountSent")
                   ELSE w1
         IN [w2 EXCEPT !.sb[s].shadowTimer = HasShadowWindow(w2, s),
                       !.sb[s].mountPc = "settle"]

MountStartForgets(w, s) == [w EXCEPT !.sb[s].mountPc = "waitReady"]

\* mount() up to its first await, lines 575-586: the race of readyPromise
\* with the 5000 ms timer is won at once when readyPromise is resolved
MountStart(w, s) ==
    IF w.sb[s].ready THEN MountProceed(w, s) ELSE [w EXCEPT !.sb[s].mountPc = "waitReady"]

\* an unmount() that sends its command before it asks for the hook, and so
\* leaves beforeUnmount out
UnmountBeginNoHook(w, s) ==
    IF w.sb[s].unmountFlag \/ HookThrows(w, s)
    THEN w
    ELSE LET w2 == IF HasWindow(w, s)
                   THEN Bump(PostToIframe(w, s, Lifecycle("unmount")), s, "unmountSent")
                   ELSE w
         IN [PostToShadow(w2, s, Lifecycle("unmount")) EXCEPT !.sb[s].unmounting = @ + 1]

\* unmount() up to its settle interval, lines 674-702
UnmountBegin(w, s) ==
    IF w.sb[s].unmountFlag \/ HookThrows(w, s)
    THEN w
    ELSE LET w1 == RunHook(w, s, "beforeUnmount")
             w2 == IF HasWindow(w1, s)
                   THEN Bump(PostToIframe(w1, s, Lifecycle("unmount")), s, "unmountSent")
                   ELSE w1
             w3 == PostToShadow(w2, s, Lifecycle("unmount"))
         IN [w3 EXCEPT !.sb[s].unmounting = @ + 1]

\* the shadow iframe leaves the document: its window is discarded
DetachShadow(w, s) ==
    IF w.sb[s].shadowIframe = "attached"
    THEN [w EXCEPT !.sb[s].shadowIframe = "detached", !.ts[s] = << >>]
    ELSE w

\* the other Sandbox instance
Other(s) == IF s = "s1" THEN "s2" ELSE "s1"

\* the custom element of t leaves the document: its shadow iframe goes with
\* it, and disconnectedCallback (lines 548-554) unmounts the Sandbox that the
\* registry reg holds under the element's data-mfe-id
DisconnectElement(w, t, reg) ==
    LET w0 == DetachShadow([w EXCEPT !.sb[t].element = FALSE], t)
        r  == reg[w.sb[t].name]
    IN IF r = NoSandbox THEN w0 ELSE UnmountBegin(w0, r)

\* while (container.firstChild) container.removeChild(...), lines 348-350 and
\* 631-633, run for Sandbox s: what an earlier Sandbox of the same name left
\* in the container (its iframe when it was degraded, else its custom
\* element) leaves the document
ClearContainer(w, s, reg) ==
    LET t  == Other(s)
        w0 == IF w.sb[t].degrade /\ HasWindow(w, t)
              THEN [w EXCEPT !.sb[t].iframe = "detached", !.tg[t] = << >>]
              ELSE w
    IN IF ~w.sb[t].created \/ w.sb[t].name # w.sb[s].name THEN w
       ELSE IF w0.sb[t].element THEN DisconnectElement(w0, t, reg) ELSE w0

\* a window that has left the document takes its guest with it
GuestsAfter(w) == [t \in Sandboxes |-> IF HasWindow(w, t) THEN guest[t] ELSE NoGuest]

\* startApp from the constructor on, lines 842-856 with the constructor
\* (275-306) and createIframe up to the wait for load (311-359)
CreateSandbox(w, s, n, dg, reg) ==
    LET w0 == [w EXCEPT !.sb[s] = [NewSandbox EXCEPT !.created = TRUE, !.name = n,
                                                    !.degrade = dg]]
        w1 == IF dg THEN ClearContainer(w0, s, reg) ELSE w0
    IN [w1 EXCEPT !.sb[s].iframe = "loading"]

\* a guest that has been mounted and has subscribed, in a Sandbox that has
\* not begun to unmount
GuestMounted(s) ==
    /\ sb[s].mountPc = "done" /\ sb[s].mountFlag
    /\ sb[s].iframe = "loaded" /\ sb[s].listening
    /\ ~sb[s].unmountFlag /\ sb[s].unmounting = 0
    /\ guest[s].listening /\ guest[s].inited /\ guest[s].handlers # << >>

(***************************************************************************)
(* Host side.                                                              *)
(***************************************************************************)
\* the options of a startApp call: whether name and url are given, and
\* whether el is missing, a selector that matches nothing, or an element
StartOptions == [name : BOOLEAN, url : BOOLEAN, el : {"missing", "unresolved", "element"}]

\* lines 789-797
ValidOptions(o) == o.name /\ o.url /\ o.el = "element"

StartInvalidCreates(o) ==
    /\ ~ValidOptions(o)
    /\ ~sb["s2"].created
    /\ hist' = [hist EXCEPT !.startFailed = "unregistered"]
    /\ Apply(CreateSandbox(World, "s2", "B", FALSE, sbRegistry))
    /\ UNCHANGED <<busVars, sm, mgrs, pre, hooks, sbRegistry, toHost, guest, gLog>>

\* startApp with options that fail its checks, lines 783-797: it throws; the
\* call is for the name "A" when a name is given
StartInvalid(o) ==
    /\ ~ValidOptions(o)
    /\ hist' = [hist EXCEPT !.startFailed =
                    IF sbRegistry["A"] # NoSandbox THEN "registered" ELSE "unregistered"]
    /\ UNCHANGED <<busVars, sm, mgrs, pre, hooks, sb, sbRegistry, count, toGuest, toShadow, toHost,
                   guest, gLog>>

\* startApp for a name that is not registered, up to the wait for the
\* iframe's load: lines 783-811, 842-856 with the constructor (275-306) and
\* createIframe (311-359)
StartApp(s, n, dg) ==
    /\ ~sb[s].created
    /\ sbRegistry[n] = NoSandbox
    /\ Construct(s, n)
    /\ emitted' = NoEmit
    /\ sbRegistry' = [sbRegistry EXCEPT ![n] = s]
    /\ LET w == CreateSandbox(World, s, n, dg, sbRegistry') IN
        /\ Apply(w)
        /\ guest' = GuestsAfter(w)
    /\ UNCHANGED <<sm, mgrs, pre, hooks, toHost, gLog, hist>>

\* iframe.onload (lines 363-392) and, in the same turn, startApp's
\* continuation (lines 859-866): the custom element is connected (499-546)
\* and mount() starts its wait for ready (575-586)
IframeLoad(s) ==
    /\ sb[s].iframe = "loading"
    /\ LET t  == sbRegistry[Name(s)]
           w0 == [World EXCEPT !.sb[s].iframe = "loaded", !.sb[s].listening = TRUE,
                               !.sb[s].patched = TRUE]
           wc == IF sb[s].degrade THEN w0 ELSE ClearContainer(w0, s, sbRegistry)
           w1 == PostToIframe(wc, s, InitMsg)
           w2 == IF sb[s].degrade THEN w1
                 ELSE IF t = NoSandbox THEN [w1 EXCEPT !.sb[s].element = TRUE]
                 ELSE [w1 EXCEPT !.sb[s].element = TRUE,
                                 !.sb[t].shadowRoot = TRUE,
                                 !.sb[t].shadowIframe =
                                     IF w1.sb[t].iframe # "null" THEN "attached" ELSE @]
           w3 == MountStart(w2, s)
       IN Apply(w3) /\ guest' = GuestsAfter(w3)
    /\ UNCHANGED <<busVars, sm, mgrs, pre, hooks, sbRegistry, toHost, gLog, hist>>

ReadyTimeoutNever(s) == sb[s].mountPc = "never" /\ UNCHANGED vars

\* the 5000 ms timer of mount() wins the race, lines 579-586
ReadyTimeout(s) ==
    /\ sb[s].mountPc = "waitReady"
    /\ Apply(MountProceed(World, s))
    /\ UNCHANGED <<busVars, sm, mgrs, pre, hooks, sbRegistry, toHost, guest, gLog, hist>>

\* the 100 ms timer of mount(), lines 604-610
ShadowMountTimer(s) ==
    /\ sb[s].shadowTimer
    /\ LET w0 == [World EXCEPT !.sb[s].shadowTimer = FALSE]
       IN Apply(IF HasShadowWindow(w0, s)
                THEN Bump(PostToShadow(w0, s, Lifecycle("mount")), s, "shadowMountSent")
                ELSE w0)
    /\ UNCHANGED <<busVars, sm, mgrs, pre, hooks, sbRegistry, toHost, guest, gLog, hist>>

\* mount() after its 200 ms settle interval, lines 614-621
MountSettle(s) ==
    /\ sb[s].mountPc = "settle"
    /\ ~sb[s].shadowTimer
    /\ LET w0 == [World EXCEPT !.sb[s].mountPc = "done"]
       IN Apply(IF HookThrows(w0, s) THEN w0 ELSE RunHook(w0, s, "afterMount"))
    /\ UNCHANGED <<busVars, sm, mgrs, pre, hooks, sbRegistry, toHost, guest, gLog, hist>>

\* unmount() after its 100 ms settle interval, lines 704-722; when a
\* startApp call for the same name waits for this unmount() (line 833), it
\* goes on in the same turn: lines 836-856
UnmountSettle(s) ==
    /\ sb[s].unmounting > 0
    /\ emitted' = [NoEmit EXCEPT !.op = "clear", !.bus = s, !.pre = Store]
    /\ LET w0 == [World EXCEPT !.sb[s].unmounting = @ - 1,
                               !.sb[s].mountFlag = FALSE,
                               !.sb[s].unmountFlag = TRUE,
                               !.sb[s].unmountDone = TRUE]
           w1 == Bump(w0, s, "cleared")
           w2 == IF w1.sb[s].shadowRoot THEN DetachShadow(w1, s) ELSE w1
           w3 == IF HookThrows(w2, s) THEN w2 ELSE RunHook(w2, s, "afterUnmount")
           w4 == [w3 EXCEPT !.sb[s].restart = IF @ > 0 THEN @ - 1 ELSE 0]
           b1 == ClearIn(BusState, s)
       IN IF sb[s].restart = 1
          THEN LET n   == Name(s)
                   new == Other(s)
                   reg == [sbRegistry EXCEPT ![n] = new]
                   w5  == CreateSandbox(w4, new, n, sb[s].restartDg, reg)
               IN /\ SetBus(ConstructIn(b1, new, n))
                  /\ sbRegistry' = reg
                  /\ Apply(w5)
                  /\ guest' = GuestsAfter(w5)
          ELSE /\ SetBus(b1)
               /\ Apply(w4)
               /\ UNCHANGED <<sbRegistry, guest>>
    /\ UNCHANGED <<sm, mgrs, pre, hooks, toHost, gLog, hist>>

PropsMsg == Envelope("mfe-props-update", << >>, << >>, "")

\* startApp for a name n that is registered, without alive: lines 783-838,
\* and, when unmount() returns without waiting, lines 842-856 in the same turn
StartReplace(n, dg, props) ==
    /\ sbRegistry[n] # NoSandbox
    /\ LET old == sbRegistry[n]
           new == Other(old)
           w0  == IF props THEN PostToIframe(World, old, PropsMsg) ELSE World
           w1  == UnmountBegin(w0, old)
       IN /\ ~sb[new].created
          /\ sb[old].restart = 0
          /\ sb[old].unmounting < MaxPending
          /\ IF w1.sb[old].unmounting > sb[old].unmounting
             THEN /\ Apply([w1 EXCEPT !.sb[old].restart = w1.sb[old].unmounting,
                                      !.sb[old].restartDg = dg])
                  /\ UNCHANGED <<busVars, sbRegistry, guest>>
             ELSE LET reg == [sbRegistry EXCEPT ![n] = new]
                      w2  == CreateSandbox(w1, new, n, dg, reg)
                  IN /\ Construct(new, n)
                     /\ emitted' = NoEmit
                     /\ sbRegistry' = reg
                     /\ Apply(w2)
                     /\ guest' = GuestsAfter(w2)
    /\ UNCHANGED <<sm, mgrs, pre, hooks, toHost, gLog, hist>>

DestroyLeavesIframe(s) ==
    /\ sb[s].created
    /\ sbRegistry[Name(s)] = s
    /\ ~sb[s].destroyed
    /\ Apply([UnmountBegin(World, s) EXCEPT !.sb[s].destroyed = TRUE])
    /\ sbRegistry' = [sbRegistry EXCEPT ![Name(s)] = NoSandbox]
    /\ UNCHANGED <<busVars, sm, mgrs, pre, hooks, toHost, guest, gLog, hist>>

DestroyKeepsEntry(s) ==
    /\ sb[s].created
    /\ sbRegistry[Name(s)] = s
    /\ Apply([UnmountBegin(World, s) EXCEPT !.sb[s].listening = FALSE,
                                            !.sb[s].destroyed = TRUE,
                                            !.sb[s].iframe = "null",
                                            !.sb[s].shadowIframe = "null"])
    /\ UNCHANGED <<busVars, sm, mgrs, pre, hooks, sbRegistry, toHost, guest, gLog, hist>>

\* destroyApp(n) for a name without registry entry, lines 917-922
DestroyAbsent(n) ==
    /\ sbRegistry[n] = NoSandbox
    /\ hist' = [hist EXCEPT !.destroyNoop = TRUE]
    /\ UNCHANGED <<busVars, sm, mgrs, pre, hooks, sb, sbRegistry, count, toGuest, toShadow, toHost,
                   guest, gLog>>

\* destroy(), lines 728-758, called through destroyApp(name) (917-922) or
\* through the handle that startApp returned (869)
Destroy(s) ==
    /\ sb[s].created
    /\ sbRegistry[Name(s)] = s \/ sb[s].mountPc = "done" \/ hist.aliveHandle[s]
    /\ sb[s].unmounting < MaxPending
    /\ LET w1 == UnmountBegin(World, s)
       IN Apply([w1 EXCEPT !.sb[s].listening = FALSE,
                           !.sb[s].destroyed = TRUE,
                           !.sb[s].iframe = "null",
                           !.sb[s].shadowIframe = "null",
                           !.sb[s].shadowRoot = FALSE,
                           !.tg[s] = << >>,
                           !.ts[s] = << >>])
    /\ sbRegistry' = [sbRegistry EXCEPT ![Name(s)] = NoSandbox]
    /\ guest' = [guest EXCEPT ![s] = NoGuest]
    /\ UNCHANGED <<busVars, sm, mgrs, pre, hooks, toHost, gLog, hist>>

\* the custom element of s leaves the document: disconnectedCallback,
\* lines 548-554
ElementRemoved(s) ==
    /\ sb[s].element
    /\ sb[s].unmounting < MaxPending
    /\ Apply(DisconnectElement(World, s, sbRegistry))
    /\ UNCHANGED <<busVars, sm, mgrs, pre, hooks, sbRegistry, toHost, guest, gLog, hist>>

\* the host application calls bus.$emit(event, ...args) on the 'main' bus
\* (line 269): EventBus.$emit, lines 84-137
HostEmit(e, args) ==
    /\ LET r == EmitRun(Store, "main", e, Throwers) IN
        /\ events' = r.st.ev
        /\ allEvents' = r.st.all
        /\ emitted' = [op |-> "emit", bus |-> "main", event |-> e, pre |-> Store,
                       log |-> r.log, escaped |-> r.aborted]
    /\ hist' = [hist EXCEPT !.hostEmit = [s \in Sandboxes |->
                   @[s] \/ (e = Ping /\ args = << >> /\ GuestMounted(s))]]
    /\ UNCHANGED <<busId, aliased, registry, regOrder>>
    /\ UNCHANGED <<sm, mgrs, pre, hooks, sb, sbRegistry, count, toGuest, toShadow, toHost, guest, gLog>>

PatchedEmitPublicOnly(s, e, args) ==
    /\ LET r == EmitRun(Store, s, e, Throwers) IN
        /\ events' = r.st.ev
        /\ allEvents' = r.st.all
        /\ emitted' = [op |-> "emit", bus |-> s, event |-> e, pre |-> Store,
                       log |-> r.log, escaped |-> r.aborted]
    /\ Apply(IF IsPrivate(e) THEN World
             ELSE PostToShadow(PostToIframe(World, s, EventMsg(e, args)), s, EventMsg(e, args)))
    /\ UNCHANGED <<busId, aliased, registry, regOrder>>

\* the patched $emit of a Sandbox's bus, lines 457-482
PatchedEmit(s, e, args) ==
    /\ LET r == EmitRun(Store, s, e, Throwers) IN
        /\ events' = r.st.ev
        /\ allEvents' = r.st.all
        /\ emitted' = [op |-> "emit", bus |-> s, event |-> e, pre |-> Store,
                       log |-> r.log, escaped |-> r.aborted]
    /\ Apply(PostToShadow(PostToIframe(World, s, EventMsg(e, args)), s, EventMsg(e, args)))
    /\ UNCHANGED <<busId, aliased, registry, regOrder>>

\* host code calls $emit on the bus of Sandbox s: the patched $emit once
\* setupCrossOriginMessaging has run (line 457), EventBus.$emit before
SandboxEmit(s, e, args) ==
    /\ sb[s].created
    /\ hist.busEmits < MaxBusEmits
    /\ hist' = [hist EXCEPT !.busEmits = @ + 1,
                            !.emitAfterDestroy = @ \/ sb[s].destroyed]
    /\ IF sb[s].patched
       THEN PatchedEmit(s, e, args)
       ELSE /\ LET r == EmitRun(Store, s, e, Throwers) IN
                 /\ events' = r.st.ev
                 /\ allEvents' = r.st.all
                 /\ emitted' = [op |-> "emit", bus |-> s, event |-> e, pre |-> Store,
                                log |-> r.log, escaped |-> r.aborted]
            /\ UNCHANGED <<busId, aliased, registry, regOrder>>
            /\ UNCHANGED <<sb, count, toGuest, toShadow>>
    /\ UNCHANGED <<sm, mgrs, pre, hooks, sbRegistry, toHost, guest, gLog>>

\* where a message to the host window comes from, as the handler of one
\* Sandbox sees it: its own primary iframe, its shadow iframe, the iframe of
\* another Sandbox, or the host window itself
Sources == {"primary", "shadow", "sibling", "host"}

AdmitsAnySource(s, src) == sb[s].listening /\ HasWindow(World, s)

\* the listener is installed (line 453) and the message passes line 407
Admits(s, src) == sb[s].listening /\ HasWindow(World, s) /\ src = "primary"

\* the message handler of Sandbox s, lines 405-451, run for message m from src
MessageHandler(s, src, m) ==
    IF ~Admits(s, src)
    THEN UNCHANGED <<busVars, sb, count, toGuest, toShadow>>
    ELSE CASE m.type = "mfe-ready" ->
                /\ LET w0 == [World EXCEPT !.sb[s].ready = TRUE]
                   IN Apply(IF sb[s].mountPc = "waitReady"
                            THEN MountProceed(w0, s) ELSE w0)
                /\ UNCHANGED busVars
           [] m.type = "mfe-event" /\ m.event # << >> ->
                PatchedEmit(s, m.event, SpreadPayload(m.payload))
           [] m.type = "mfe-lifecycle" /\ m.action = "mounted" ->
                /\ Apply(RunHook([World EXCEPT !.sb[s].mountFlag = TRUE], s, "afterMount"))
                /\ UNCHANGED busVars
           [] m.type = "mfe-lifecycle" /\ m.action = "unmounted" ->
                /\ Apply(RunHook([World EXCEPT !.sb[s].unmountFlag = TRUE], s, "afterUnmount"))
                /\ UNCHANGED busVars
           [] OTHER -> UNCHANGED <<busVars, sb, count, toGuest, toShadow>>

\* the host's message handler of Sandbox s, lines 405-451, for the first
\* message that the guest of s posted
HostRecv(s) ==
    /\ toHost[s] # << >>
    /\ toHost' = [toHost EXCEPT ![s] = Tail(@)]
    /\ MessageHandler(s, "primary", Head(toHost[s]))
    /\ UNCHANGED <<sm, mgrs, pre, hooks, sbRegistry, guest, gLog, hist>>

\* well-formed messages of the protocol
Protocol ==
    {ReadyMsg, EventMsg(Ping, << >>), Lifecycle("mounted"), Lifecycle("unmounted")}

\* a message without data, without type, with a type that is not of the
\* protocol, an event envelope without event name, a lifecycle envelope
\* without action
Malformed ==
    {Envelope("", << >>, << >>, ""), Envelope("bogus", Ping, << >>, "mounted"),
     Envelope("mfe-event", << >>, <<42>>, ""), Envelope("mfe-lifecycle", << >>, << >>, "")}

\* a message from another window reaches the handler of Sandbox s
StrayMessage(s, src, m) ==
    /\ sb[s].created
    /\ src # "primary"
    /\ MessageHandler(s, src, m)
    /\ hist' = [hist EXCEPT !.stray = @ \/ (sb[s].listening /\ HasWindow(World, s))]
    /\ UNCHANGED <<sm, mgrs, pre, hooks, sbRegistry, toHost, guest, gLog>>

\* a malformed message from its own iframe reaches the handler of Sandbox s
MalformedMessage(s, m) ==
    /\ sb[s].created
    /\ MessageHandler(s, "primary", m)
    /\ hist' = [hist EXCEPT !.malformed = @ \/ (sb[s].listening /\ HasWindow(World, s))]
    /\ UNCHANGED <<sm, mgrs, pre, hooks, sbRegistry, toHost, guest, gLog>>

(***************************************************************************)
(* Guest side: the application in the primary iframe of Sandbox s.         *)
(***************************************************************************)
\* the handlers of window.__MFE_EVENT_HANDLERS for event e are called with
\* the payload, lines 1056-1065 and 1107-1114
CallHandlers(log, handlers, e, args, via) ==
    log \o [k \in 1..Len(handlers) |-> [event |-> e, args |-> args, via |-> via]]

\* the event a handler of the guest was registered for: "g" for Ping, "gs"
\* (react-child App.js lines 53-57) for state:update:main
SubscribedTo(h) == IF h = "gs" THEN StateUpdate ELSE Ping

\* window.__MFE_EVENT_HANDLERS.get(e) || [], lines 1056 and 1108
HandlersFor(s, e) == SelectSeq(guest[s].handlers, LAMBDA h : SubscribedTo(h) = e)

\* a guest that installs its listener and its handler and announces nothing
GuestBootSilent(s) ==
    /\ HasWindow(World, s)
    /\ ~guest[s].listening
    /\ guest' = [guest EXCEPT ![s].listening = TRUE, ![s].handlers = Append(@, "g"),
                              ![s].app = "plain"]
    /\ UNCHANGED <<busVars, sm, mgrs, pre, hooks, sb, sbRegistry, count, toGuest, toShadow,
                   toHost, gLog, hist>>

\* the guest application runs: initChildApp (lines 927-1093) and then a
\* subscription to Ping through the returned bus ($on, lines 1124-1134)
GuestBoot(s) ==
    /\ HasWindow(World, s)
    /\ ~guest[s].listening
    /\ guest' = [guest EXCEPT ![s].listening = TRUE, ![s].handlers = Append(@, "g"),
                              ![s].app = "plain"]
    /\ toHost' = [toHost EXCEPT ![s] = Append(@, ReadyMsg)]
    /\ UNCHANGED <<busVars, sm, mgrs, pre, hooks, sb, sbRegistry, count, toGuest, toShadow, gLog, hist>>

\* the React child application runs: initChildApp (react-child App.js lines
\* 14-32, index.js lines 927-1093); it subscribes when it is rendered
GuestBootReact(s) ==
    /\ HasWindow(World, s)
    /\ ~guest[s].listening
    /\ guest' = [guest EXCEPT ![s].listening = TRUE, ![s].app = "react"]
    /\ toHost' = [toHost EXCEPT ![s] = Append(@, ReadyMsg)]
    /\ UNCHANGED <<busVars, sm, mgrs, pre, hooks, sb, sbRegistry, count, toGuest, toShadow, gLog, hist>>

\* the guest's message handler, lines 940-1086, for the first message that
\* the host posted to the primary iframe
GuestRecv(s) ==
    /\ toGuest[s] # << >>
    /\ toGuest' = [toGuest EXCEPT ![s] = Tail(@)]
    /\ LET m == Head(toGuest[s]) IN
        IF ~guest[s].listening
        THEN UNCHANGED <<guest, toHost, gLog>>
        ELSE CASE m.type = "mfe-init" ->
                    /\ guest' = [guest EXCEPT ![s].inited = TRUE]
                    /\ toHost' = [toHost EXCEPT ![s] = Append(@, ReadyMsg)]
                    /\ UNCHANGED gLog
               [] m.type = "mfe-event" ->
                    /\ gLog' = [gLog EXCEPT ![s] =
                          CallHandlers(@, HandlersFor(s, m.event),
                                       m.event, SpreadPayload(m.payload), "envelope")]
                    /\ UNCHANGED <<guest, toHost>>
               [] m.type = "mfe-lifecycle" /\ m.action = "mount"
                     /\ guest[s].app = "react" ->
                    \* mount() renders the component, whose effect subscribes to
                    \* state:update:main and emits state:get:main (react-child
                    \* App.js lines 17-20, 51-57 and 72)
                    /\ guest' = [guest EXCEPT ![s].handlers = Append(@, "gs")]
                    /\ toHost' = [toHost EXCEPT ![s] =
                          @ \o <<Lifecycle("mounted"), EventMsg(StateGet, << >>)>>]
                    /\ UNCHANGED gLog
               [] m.type = "mfe-lifecycle" /\ m.action = "mount" ->
                    /\ toHost' = [toHost EXCEPT ![s] = Append(@, Lifecycle("mounted"))]
                    /\ UNCHANGED <<guest, gLog>>
               [] m.type = "mfe-lifecycle" /\ m.action = "unmount" ->
                    /\ toHost' = [toHost EXCEPT ![s] = Append(@, Lifecycle("unmounted"))]
                    /\ UNCHANGED <<guest, gLog>>
               [] OTHER -> UNCHANGED <<guest, toHost, gLog>>
    /\ hist' = [hist EXCEPT !.asked =
          @ \/ (/\ guest[s].listening /\ guest[s].app = "react"
                /\ Head(toGuest[s]).type = "mfe-lifecycle"
                /\ Head(toGuest[s]).action = "mount"
                /\ sm.bus # NoBus)]
    /\ UNCHANGED <<busVars, sm, mgrs, pre, hooks, sb, sbRegistry, count, toShadow>>

\* the guest calls $emit on the bus that initChildApp returned, lines 1098-1114
GuestEmit(s, e, args) ==
    /\ guest[s].listening
    /\ guest[s].emits < MaxGuestEmits
    /\ guest' = [guest EXCEPT ![s].emits = @ + 1]
    /\ toHost' = [toHost EXCEPT ![s] = Append(@, EventMsg(e, args))]
    /\ gLog' = [gLog EXCEPT ![s] =
          CallHandlers(@, HandlersFor(s, e), e, args, "local")]
    /\ hist' = [hist EXCEPT !.guestEmit = [t \in Sandboxes |->
                   @[t] \/ (t # s /\ e = Ping /\ args = <<42>>
                            /\ GuestMounted(s) /\ GuestMounted(t))]]
    /\ UNCHANGED <<busVars, sm, mgrs, pre, hooks, sb, sbRegistry, count, toGuest, toShadow>>

\* the window of the shadow iframe takes the first message posted to it; what
\* the copy of the guest in it posts back fails the handler's source check
\* (line 407)
ShadowRecv(s) ==
    /\ toShadow[s] # << >>
    /\ toShadow' = [toShadow EXCEPT ![s] = Tail(@)]
    /\ UNCHANGED <<busVars, sm, mgrs, pre, hooks, sb, sbRegistry, count, toGuest, toHost, guest, gLog, hist>>

(***************************************************************************)
(* Specifications.  Spec: the host and one Sandbox through its whole       *)
(* lifecycle.  SpecSiblings: two Sandboxes in the default (non-degraded)   *)
(* mode that are started and mounted, whose guests answer within the 5000  *)
(* ms of mount(), and whose guests emit.                                   *)
(***************************************************************************)
\* the module has been loaded: lines 269 and 762-764
HostBuses ==
    /\ busId = [i \in Inst |-> IF i = "main" THEN "main" ELSE NoBus]
    /\ events = [i \in Inst |-> EmptyEvents]
    /\ allEvents = [i \in Inst |-> << >>]
    /\ aliased = FALSE
    /\ registry = [id \in Ids |-> IF id = "main" THEN "main" ELSE NoBus]
    /\ regOrder = <<"main">>
    /\ emitted = NoEmit
    /\ SbIdle

HostInit == HostBuses /\ sm = NewManager

Init == HostInit /\ hooks \in BOOLEAN

Next ==
    \/ \E dg \in BOOLEAN : StartApp("s1", "A", dg)
    \/ IframeLoad("s1")
    \/ ReadyTimeout("s1")
    \/ ShadowMountTimer("s1")
    \/ MountSettle("s1")
    \/ UnmountSettle("s1")
    \/ Destroy("s1")
    \/ ElementRemoved("s1")
    \/ \E args \in Payloads : HostEmit(Ping, args)
    \/ HostRecv("s1")
    \/ GuestBoot("s1")
    \/ GuestRecv("s1")
    \/ \E args \in Payloads : GuestEmit("s1", Ping, args)
    \/ ShadowRecv("s1")

Spec == Init /\ [][Next]_vars

InitSiblings == HostInit /\ hooks = FALSE

NextSiblings ==
    \/ StartApp("s1", "A", FALSE)
    \/ StartApp("s2", "B", FALSE)
    \/ \E s \in Sandboxes : IframeLoad(s)
    \/ \E s \in Sandboxes : ShadowMountTimer(s)
    \/ \E s \in Sandboxes : MountSettle(s)
    \/ \E s \in Sandboxes : HostRecv(s)
    \/ \E s \in Sandboxes : GuestBoot(s)
    \/ \E s \in Sandboxes : GuestRecv(s)
    \/ \E s \in Sandboxes : GuestEmit(s, Ping, <<42>>)
    \/ \E s \in Sandboxes : ShadowRecv(s)

SpecSiblings == InitSiblings /\ [][NextSiblings]_vars

(***************************************************************************)
(* Properties of the Sandbox, checked under Spec and SpecSiblings.         *)
(***************************************************************************)
Delivered(s, args) ==
    \E k \in 1..Len(gLog[s]) :
        gLog[s][k] = [event |-> Ping, args |-> args, via |-> "envelope"]

\* C7: when the host has emitted an event with no arguments on the 'main' bus
\* while a guest was mounted and subscribed to it, then, once every message
\* posted to that guest has been delivered, the guest's handler has been
\* called through an event envelope with zero arguments.
C7_HostToGuest ==
    \A s \in Sandboxes :
        hist.hostEmit[s] /\ GuestMounted(s) /\ toGuest[s] = << >>
            => Delivered(s, << >>)

\* C8: when guest A has emitted ('ping', 42) while both guests were mounted
\* and B was subscribed, then, once every message between the host and the
\* two guests has been delivered, B's handler has been called with 42 (and
\* the same with A and B exchanged).
C8_GuestToSibling ==
    \A t \in Sandboxes :
        /\ hist.guestEmit[t] /\ GuestMounted(t)
        /\ \A s \in Sandboxes : toHost[s] = << >> /\ toGuest[s] = << >>
        => Delivered(t, <<42>>)

\* C9: whatever calls of unmount() are made on a Sandbox, overlapping ones
\* included, the beforeUnmount hook runs at most once, at most one
\* lifecycle:unmount envelope is sent to the primary iframe, and the bus is
\* cleared at most once.
C9_TeardownOnce ==
    \A s \in Sandboxes :
        /\ count[s].beforeUnmount <= 1
        /\ count[s].unmountSent <= 1
        /\ count[s].cleared <= 1

\* C10: once unmount() has completed on a Sandbox, no step sends a
\* lifecycle:mount envelope on its primary or its shadow transport, and no
\* step sets its mountFlag.
C10_NoMountAfterUnmount ==
    [][\A s \in Sandboxes :
          sb[s].unmountDone =>
             /\ count'[s].mountSent = count[s].mountSent
             /\ count'[s].shadowMountSent = count[s].shadowMountSent
             /\ sb'[s].mountFlag => sb[s].mountFlag]_vars

(***************************************************************************)
(* SpecLive: Spec with the timers of mount() (setTimeout, lines 580, 604   *)
(* and 614) firing once they are due.  Nothing is assumed about the guest. *)
(***************************************************************************)
SpecLive ==
    /\ Init /\ [][Next]_vars
    /\ WF_vars(ReadyTimeout("s1"))
    /\ WF_vars(ShadowMountTimer("s1"))
    /\ WF_vars(MountSettle("s1"))

\* C11: a mount() that waits for ready always comes to its end (it resolves:
\* every error in it is caught), whether or not the guest sends ready; and
\* when the ready timeout fires on a Sandbox that still has its iframe,
\* mount() goes on: it runs beforeMount, sends lifecycle:mount and enters its
\* settle interval.
C11_BoundedReadiness ==
    /\ (sb["s1"].mountPc = "waitReady") ~> (sb["s1"].mountPc = "done")
    /\ [][ReadyTimeout("s1") /\ HasWindow(World, "s1") =>
            /\ count'["s1"].mountSent = count["s1"].mountSent + 1
            /\ hooks => count'["s1"].beforeMount = count["s1"].beforeMount + 1
            /\ sb'["s1"].mountPc = "settle"]_vars

\* mount() has ended on a Sandbox whose guest never sent ready
C11_Witness ==
    /\ sb["s1"].mountPc = "done" /\ ~sb["s1"].ready
    /\ count["s1"].mountSent = 1 /\ toHost["s1"] = << >> /\ ~guest["s1"].listening

(***************************************************************************)
(* SpecReplace: Scenario C.  Sandbox "s1" is started under the name "A";   *)
(* after that call has completed, startApp is called again for "A" without *)
(* alive, which creates Sandbox "s2".  Nothing else acts on the Sandboxes. *)
(***************************************************************************)
StartAliveUnmounts(n, props) ==
    /\ sbRegistry[n] # NoSandbox
    /\ hist.aliveStarts < MaxAliveStarts
    /\ hist' = [hist EXCEPT !.aliveStarts = @ + 1, !.aliveHandle[sbRegistry[n]] = TRUE]
    /\ Apply(UnmountBegin(World, sbRegistry[n]))
    /\ UNCHANGED <<busVars, sm, mgrs, pre, hooks, sbRegistry, toHost, guest, gLog>>

\* startApp for a name n that is registered, with alive: true: lines 783-830;
\* it returns a destroy handle of the registered Sandbox
StartAlive(n, props) ==
    /\ sbRegistry[n] # NoSandbox
    /\ hist.aliveStarts < MaxAliveStarts
    /\ hist' = [hist EXCEPT !.aliveStarts = @ + 1, !.aliveHandle[sbRegistry[n]] = TRUE]
    /\ Apply(IF props THEN PostToIframe(World, sbRegistry[n], PropsMsg) ELSE World)
    /\ UNCHANGED <<busVars, sm, mgrs, pre, hooks, sbRegistry, toHost, guest, gLog>>

\* the second startApp call, made once the first one has returned (line 869)
ReplaceStarted(n, dg, props) ==
    /\ sbRegistry[n] # NoSandbox
    /\ sb[sbRegistry[n]].mountPc = "done"
    /\ StartReplace(n, dg, props)

NextReplace ==
    \/ \E dg \in BOOLEAN : StartApp("s1", "A", dg)
    \/ \E dg \in BOOLEAN, props \in BOOLEAN : ReplaceStarted("A", dg, props)
    \/ \E props \in BOOLEAN : StartAlive("A", props)
    \/ \E s \in Sandboxes : IframeLoad(s)
    \/ \E s \in Sandboxes : ReadyTimeout(s)
    \/ \E s \in Sandboxes : ShadowMountTimer(s)
    \/ \E s \in Sandboxes : MountSettle(s)
    \/ \E s \in Sandboxes : UnmountSettle(s)
    \/ \E s \in Sandboxes : HostRecv(s)
    \/ \E s \in Sandboxes : GuestBoot(s)
    \/ \E s \in Sandboxes : GuestRecv(s)
    \/ \E s \in Sandboxes : ShadowRecv(s)

SpecReplace == Init /\ [][NextReplace]_vars

\* C12: at the step that completes the second startApp call for the name
\* (the new Sandbox's mount() ends), the first Sandbox has been unmounted, its
\* iframe is not attached to the document, the registry maps the name to the
\* new Sandbox, and the new Sandbox has its own iframe attached.
C12_Replacement ==
    [][sb["s2"].mountPc # "done" /\ sb'["s2"].mountPc = "done" =>
          /\ sb'["s1"].unmountDone
          /\ ~HasWindow([sb |-> sb'], "s1")
          /\ sbRegistry'["A"] = "s2"
          /\ HasWindow([sb |-> sb'], "s2")]_vars

NextStart ==
    \/ \E dg \in BOOLEAN : StartApp("s1", "A", dg)
    \/ \E o \in StartOptions : StartInvalid(o)
    \/ IframeLoad("s1")
    \/ ReadyTimeout("s1")
    \/ ShadowMountTimer("s1")
    \/ MountSettle("s1")
    \/ UnmountSettle("s1")
    \/ Destroy("s1")
    \/ DestroyAbsent("A")
    \/ ElementRemoved("s1")
    \/ GuestRecv("s1")
    \/ ShadowRecv("s1")

SpecStart == Init /\ [][NextStart]_vars

\* C14: a startApp call whose options lack name, url or el, or whose el
\* selector matches no element, leaves the sandbox registry, the Sandboxes,
\* the buses and their registry, the iframes and the message listeners as
\* they are, also when a Sandbox is registered under the name.
C14_ConfigErrorFrame ==
    [][\A o \in StartOptions :
          StartInvalid(o) =>
             /\ UNCHANGED busVars
             /\ UNCHANGED <<sb, sbRegistry, count, toGuest, toShadow, toHost, guest>>]_vars

\* a startApp call has failed while a mounted Sandbox was registered
C14_Witness ==
    /\ hist.startFailed = "registered"
    /\ sbRegistry["A"] = "s1" /\ sb["s1"].mountPc = "done" /\ sb["s1"].listening

\* C15: when destroy() returns, the registry has no entry under the
\* Sandbox's name, the Sandbox's message listener is not installed, and its
\* iframe and shadow iframe are out of the document with the references to
\* them null; destroyApp for a name without registry entry changes nothing.
C15_DestroyPostcondition ==
    [][/\ \A s \in Sandboxes :
             Destroy(s) =>
                /\ sbRegistry'[sb[s].name] = NoSandbox
                /\ ~sb'[s].listening
                /\ sb'[s].iframe = "null"
                /\ sb'[s].shadowIframe = "null"
                /\ toGuest'[s] = << >> /\ toShadow'[s] = << >>
       /\ DestroyAbsent("A") =>
             /\ UNCHANGED busVars
             /\ UNCHANGED <<sb, sbRegistry, count, toGuest, toShadow, toHost, guest>>]_vars

\* a Sandbox that had a shadow iframe and had sent lifecycle:mount has been
\* destroyed, and destroyApp has been called for a name without entry
C15_Witness ==
    /\ sb["s1"].destroyed /\ sb["s1"].element /\ count["s1"].mountSent = 1
    /\ hist.destroyNoop

(***************************************************************************)
(* SpecTerminal: Spec with host code that emits on the Sandbox's own bus.  *)
(***************************************************************************)
NextTerminal ==
    \/ Next
    \/ SandboxEmit("s1", Ping, << >>)

SpecTerminal == Init /\ [][NextTerminal]_vars

\* C16: once destroy() has returned on a Sandbox, no step sends a message to
\* its iframe or its shadow iframe, no step calls one of its lifecycle hooks
\* or resolves its ready promise, and a message of its guest that reaches
\* the host changes neither the Sandbox nor the buses.
C16_DestroyTerminal ==
    [][\A s \in Sandboxes :
          sb[s].destroyed =>
             /\ toGuest'[s] = toGuest[s] /\ toShadow'[s] = toShadow[s]
             /\ \A f \in {"beforeMount", "afterMount", "beforeUnmount", "afterUnmount",
                          "mountSent", "shadowMountSent", "unmountSent"} :
                   count'[s][f] = count[s][f]
             /\ sb'[s].ready = sb[s].ready
             /\ HostRecv(s) => sb' = sb /\ UNCHANGED busVars]_vars

\* a Sandbox was destroyed; after that its mount() and its unmount() came to
\* their ends and host code emitted on its bus
C16_Witness ==
    /\ sb["s1"].destroyed /\ hist.emitAfterDestroy
    /\ sb["s1"].mountPc = "done" /\ sb["s1"].unmountDone /\ sb["s1"].unmounting = 0
    /\ count["s1"].mountSent = 0

(***************************************************************************)
(* SpecFilter: SpecStart with messages that reach the host window from     *)
(* other windows, and malformed messages from the Sandbox's own iframe.    *)
(***************************************************************************)
NextFilter ==
    \/ NextStart
    \/ \E src \in Sources, m \in Protocol : StrayMessage("s1", src, m)
    \/ \E m \in Malformed : MalformedMessage("s1", m)

SpecFilter == Init /\ [][NextFilter]_vars

\* C17: a message whose source is not the Sandbox's own primary iframe
\* window, and a malformed message from that window, leave the Sandbox (its
\* flags and ready state), the buses, the hook and command counts and the
\* messages to its iframes as they are.
C17_AdmissionFilter ==
    [][\A s \in Sandboxes :
          \/ \E src \in Sources, m \in Protocol : StrayMessage(s, src, m)
          \/ \E m \in Malformed : MalformedMessage(s, m)
          => /\ sb' = sb /\ count' = count
             /\ UNCHANGED busVars
             /\ toGuest' = toGuest /\ toShadow' = toShadow]_vars

\* a stray and a malformed message have reached a Sandbox whose listener is
\* installed, and its mount() still waits for ready
C17_Witness ==
    /\ hist.stray /\ hist.malformed
    /\ sb["s1"].listening /\ sb["s1"].mountPc = "waitReady" /\ ~sb["s1"].ready

(***************************************************************************)
(* The StateManager: setState, subscribe, connect and its timers.          *)
(***************************************************************************)
MaxSetStates == 3   \* setState calls host code makes

\* the objects host code passes to setState
Partials ==
    {<< >>, <<<<"a", 1>>>>, <<<<"a", 2>>>>, <<<<"b", 2>>>>, <<<<"b", 1>>, <<"a", 1>>>>}
\* the objects host code passes to the constructor
InitialStates == {<< >>, <<<<"b", 1>>>>}
MainName == <<"m", "a", "i", "n">>

\* notifyListeners, lines 239-247
NotifyListeners(m) == [m EXCEPT !.notified = @ + Len(m.listeners)]

\* the handler that connect registers for state:update, lines 171-175, run
\* for every place it has in the calls of one $emit
RECURSIVE RunUpdateHandlers(_, _, _)
RunUpdateHandlers(m, log, newState) ==
    IF log = << >>
    THEN m
    ELSE RunUpdateHandlers(
            IF Head(log).h = "smUpdate"
            THEN [m EXCEPT !.state = Merge(@, newState), !.debounce = TRUE]
            ELSE m,
            Tail(log), newState)

\* this.bus.$emit(`state:update:${name}`, newState), lines 181 and 214
BusEmitUpdate(m, newState) ==
    RunUpdateHandlers(m, EmitRun(Store, m.bus, StateUpdate, Throwers).log, newState)

\* the handler that connect registers for state:get, lines 178-182
RECURSIVE RunGetHandlers(_, _)
RunGetHandlers(m, log) ==
    IF log = << >>
    THEN m
    ELSE RunGetHandlers(IF Head(log).h = "smGet" THEN BusEmitUpdate(m, m.state) ELSE m,
                        Tail(log))

\* this.bus.$emit(`state:get:${name}`), line 186
BusEmitGet(m) == RunGetHandlers(m, EmitRun(Store, m.bus, StateGet, Throwers).log)

\* the record of an $emit on the manager's bus
EmitRecord(m, e) ==
    LET r == EmitRun(Store, m.bus, e, Throwers) IN
    [op |-> "emit", bus |-> m.bus, event |-> e, pre |-> Store,
     log |-> r.log, escaped |-> r.aborted]

\* setState, lines 202-219: m after the call, whether the state changed
\* (line 207) and whether the change was broadcast (line 212)
SetStateOf(m, p) ==
    LET prevState == Merge(<< >>, m.state)
        m1 == [m EXCEPT !.state = Merge(m.state, p)]
        changed == Stringify(prevState) # Stringify(m1.state)
        cast == changed /\ m.bus # NoBus /\ m.name # << >>
        m2 == IF changed THEN NotifyListeners(m1) ELSE m1
    IN [m |-> IF cast THEN BusEmitUpdate(m2, p) ELSE m2, changed |-> changed, cast |-> cast]

\* the shallow merge of a snapshot f (key -> value, 0 for no value) with p
ShallowMerge(f, p) ==
    [k \in Keys |->
        IF HasKey(p, k) THEN p[CHOOSE n \in 1..Len(p) : p[n][1] = k][2] ELSE f[k]]
\* getState(), lines 195-197, as key -> value
Snapshot(obj) == ShallowMerge([k \in Keys |-> 0], obj)

NoPair == [n |-> 0, p |-> << >>, calls |-> 0, calls2 |-> 0, casts2 |-> 0]

\* host code calls setState(p)
SetState(p) ==
    /\ sm.sets < MaxSetStates
    /\ LET r == SetStateOf(sm, p)
           calls == r.m.notified - sm.notified
       IN /\ sm' = [r.m EXCEPT
                      !.sets = @ + 1,
                      !.expect = ShallowMerge(@, p),
                      !.pair = IF sm.pair.n = 1 /\ sm.pair.p = p
                               THEN [n |-> 2, p |-> p, calls |-> sm.pair.calls + calls,
                                     calls2 |-> calls, casts2 |-> IF r.cast THEN 1 ELSE 0]
                               ELSE IF r.changed /\ ~sm.getTimer /\ ~sm.debounce
                               THEN [NoPair EXCEPT !.n = 1, !.p = p, !.calls = calls]
                               ELSE NoPair,
                      !.lastSet = [changed |-> r.changed, cast |-> r.cast, p |-> p,
                                   mounted |-> GuestMounted("s1")]]
          /\ IF r.cast
             THEN /\ emitted' = EmitRecord(sm, StateUpdate)
                  /\ UNCHANGED <<busId, events, allEvents, aliased, registry, regOrder>>
             ELSE UNCHANGED busVars
    /\ UNCHANGED <<mgrs, pre, hooks, sb, sbRegistry, count, toGuest, toShadow, toHost, guest, gLog, hist>>

\* host code calls subscribe(l), lines 224-234
Subscribe(l) ==
    /\ ~Includes(sm.listeners, l)
    /\ sm' = [sm EXCEPT !.listeners = Append(@, l), !.pair = NoPair]
    /\ UNCHANGED <<busVars, mgrs, pre, hooks, sb, sbRegistry, count, toGuest, toShadow, toHost, guest,
                   gLog, hist>>

\* host code calls the function that subscribe(l) returned, lines 231-233
Unsubscribe(l) ==
    /\ Includes(sm.listeners, l)
    /\ sm' = [sm EXCEPT !.listeners = SelectSeq(@, LAMBDA x : x # l), !.pair = NoPair]
    /\ UNCHANGED <<busVars, mgrs, pre, hooks, sb, sbRegistry, count, toGuest, toShadow, toHost, guest,
                   gLog, hist>>

\* globalState.connect('main', bus), lines 163-190 (parent-app App.js line 15)
Connect ==
    /\ sm.bus = NoBus
    /\ sm' = [sm EXCEPT !.bus = "main", !.name = MainName, !.getTimer = TRUE,
                        !.pair = NoPair]
    /\ events' = StOn(StOn(Store, "main", StateUpdate, "smUpdate"),
                      "main", StateGet, "smGet").ev
    /\ emitted' = NoEmit
    /\ UNCHANGED <<busId, allEvents, aliased, registry, regOrder>>
    /\ UNCHANGED <<mgrs, pre, hooks, sb, sbRegistry, count, toGuest, toShadow, toHost, guest, gLog, hist>>

\* the timer of connect fires after 50 ms, lines 185-187
GetTimer ==
    /\ sm.getTimer
    /\ sm' = [BusEmitGet([sm EXCEPT !.getTimer = FALSE]) EXCEPT !.pair = NoPair]
    /\ emitted' = EmitRecord(sm, StateGet)
    /\ UNCHANGED <<busId, events, allEvents, aliased, registry, regOrder>>
    /\ UNCHANGED <<mgrs, pre, hooks, sb, sbRegistry, count, toGuest, toShadow, toHost, guest, gLog, hist>>

\* the debounced notifyListeners runs 20 ms after the last state:update
\* that the manager's handler took, lines 168, 174 and 252-262
DebounceFire ==
    /\ sm.debounce
    /\ sm' = [NotifyListeners(sm) EXCEPT
                 !.debounce = FALSE,
                 !.pair.calls = IF sm.pair.n > 0 THEN @ + Len(sm.listeners) ELSE @]
    /\ UNCHANGED <<busVars, mgrs, pre, hooks, sb, sbRegistry, count, toGuest, toShadow, toHost, guest,
                   gLog, hist>>

(***************************************************************************)
(* SpecState: one StateManager, constructed with an initial state, that    *)
(* host code subscribes to, connects to the 'main' bus and updates.        *)
(***************************************************************************)
InitState ==
    /\ HostBuses
    /\ hooks = FALSE
    /\ \E o \in InitialStates : sm = [NewManager EXCEPT !.state = o, !.expect = Snapshot(o)]

NextState ==
    \/ \E p \in Partials : SetState(p)
    \/ \E l \in Listeners : Subscribe(l)
    \/ \E l \in Listeners : Unsubscribe(l)
    \/ Connect
    \/ GetTimer
    \/ DebounceFire

SpecState == InitState /\ [][NextState]_vars

\* C18: after any sequence of setState calls, getState() is the shallow merge,
\* from left to right, of the initial state with every partial: a key of a
\* partial has the partial's value, any other key keeps the value it had.
C18_MergeSemantics == Snapshot(sm.state) = sm.expect

\* setState({a:1}) and then setState({b:2}) on a manager that started empty
C18_Witness ==
    /\ sm.sets = 2
    /\ sm.state = <<<<"a", 1>>, <<"b", 2>>>>
    /\ sm.expect = [k \in Keys |-> IF k = "a" THEN 1 ELSE 2]

\* C19: setState(p) called twice in a row, the first call changing the state,
\* calls every subscriber exactly once in total, and the second call calls no
\* subscriber and broadcasts no state:update, whether the manager is
\* connected to a bus or not.
C19_NoopSuppression ==
    (sm.pair.n = 2 /\ sm.listeners # << >>) =>
        /\ sm.pair.calls = Len(sm.listeners)
        /\ sm.pair.calls2 = 0
        /\ sm.pair.casts2 = 0

\* the part of C19 about the second call: it calls no subscriber and
\* broadcasts nothing
C19_SecondCallSilent ==
    sm.pair.n = 2 => sm.pair.calls2 = 0 /\ sm.pair.casts2 = 0

\* C19 for a manager that is not connected to a bus
C19_Unconnected ==
    (sm.pair.n = 2 /\ sm.listeners # << >> /\ sm.bus = NoBus) =>
        sm.pair.calls = Len(sm.listeners)

(***************************************************************************)
(* SpecReplicate: the host connects its StateManager to the 'main' bus and *)
(* updates it, and starts a Sandbox whose guest is the React child, which  *)
(* answers within the 5000 ms of mount().                                  *)
(***************************************************************************)
InitReplicate == HostInit /\ hooks = FALSE

NextReplicate ==
    \/ Connect
    \/ GetTimer
    \/ DebounceFire
    \/ \E p \in {<<<<"a", 1>>>>, <<<<"a", 2>>>>} : SetState(p)
    \/ \E dg \in BOOLEAN : StartApp("s1", "A", dg)
    \/ IframeLoad("s1")
    \/ ShadowMountTimer("s1")
    \/ MountSettle("s1")
    \/ HostRecv("s1")
    \/ GuestBootReact("s1")
    \/ GuestRecv("s1")
    \/ ShadowRecv("s1")

SpecReplicate == InitReplicate /\ [][NextReplicate]_vars

\* every message between the host and the guests has been delivered
Quiet ==
    \A s \in Sandboxes : toHost[s] = << >> /\ toGuest[s] = << >> /\ toShadow[s] = << >>

\* the guest's state:update:main handler was called through an envelope
GotUpdate(s) ==
    \E k \in 1..Len(gLog[s]) :
        gLog[s][k].event = StateUpdate /\ gLog[s][k].via = "envelope"

\* the first half of C20: a setState on the connected host manager that
\* changed its state while the guest was mounted and subscribed has reached
\* the guest's state:update:main handler once all messages are delivered
C20_DeltaReachesGuest ==
    (sm.lastSet.cast /\ sm.lastSet.mounted /\ GuestMounted("s1") /\ Quiet) =>
        \E k \in 1..Len(gLog["s1"]) :
            /\ gLog["s1"][k].event = StateUpdate /\ gLog["s1"][k].via = "envelope"
            /\ gLog["s1"][k].args = <<sm.lastSet.p>>

\* the second half of C20: the state:get:main of a mounted guest, emitted
\* when the host manager was connected, has been answered with a
\* state:update:main once all messages are delivered
C20_GetAnswered ==
    (hist.asked /\ GuestMounted("s1") /\ Quiet) => GotUpdate("s1")

\* C20: the host's StateManager, connected under 'main' to the host's bus,
\* and a mounted guest converge: the delta of a setState that changed the
\* host's state reaches the guest's state:update:main subscriber, and the
\* guest's state:get:main is answered with the host's snapshot.
C20_StateReplication == C20_DeltaReachesGuest /\ C20_GetAnswered

\* no state:update:main ever reaches a guest
C20_NeverReplicated == ~GotUpdate("s1")

(***************************************************************************)
(* Several StateManagers connected under the name 'main' to the 'main'     *)
(* bus.  Manager m registers the handlers UpdateH(m) and GetH(m).          *)
(***************************************************************************)
MaxPeerSets == 3   \* setState calls host code makes on these managers

PeerPartials == {<<<<"a", 1>>>>, <<<<"a", 2>>>>, <<<<"b", 1>>>>}

UpdateH(m) == IF m = "m1" THEN "u1" ELSE "u2"
GetH(m) == IF m = "m1" THEN "g1" ELSE "g2"
Connected(g, m) == Includes(g.on, m)

\* the state:update handlers of the managers (lines 171-175) in the order in
\* which one $emit called them
RECURSIVE PeerUpdates(_, _, _)
PeerUpdates(g, log, newState) ==
    IF log = << >>
    THEN g
    ELSE LET h == Head(log).h
             g1 == IF \E m \in Mgrs : h = UpdateH(m)
                   THEN LET m == CHOOSE x \in Mgrs : h = UpdateH(x)
                        IN [g EXCEPT !.state[m] = Merge(@, newState), !.debounce[m] = TRUE]
                   ELSE g
         IN PeerUpdates(g1, Tail(log), newState)

\* this.bus.$emit(`state:update:${name}`, newState), lines 181 and 214
PeerEmitUpdate(g, newState) ==
    PeerUpdates(g, EmitRun(Store, "main", StateUpdate, Throwers).log, newState)

\* state:get handlers that answer nothing
PeerGetsSilent(g, log) == g

\* the state:get handlers of the managers (lines 178-182) in the order in
\* which one $emit called them
RECURSIVE PeerGets(_, _)
PeerGets(g, log) ==
    IF log = << >>
    THEN g
    ELSE LET h == Head(log).h
             g1 == IF \E m \in Mgrs : h = GetH(m)
                   THEN LET m == CHOOSE x \in Mgrs : h = GetH(x)
                        IN PeerEmitUpdate(g, g.state[m])
                   ELSE g
         IN PeerGets(g1, Tail(log))

\* host code calls setState(p) on manager m, lines 202-219
PeerSetState(m, p) ==
    /\ mgrs.sets < MaxPeerSets
    /\ LET prevState == Merge(<< >>, mgrs.state[m])
           g1 == [mgrs EXCEPT !.state[m] = Merge(@, p)]
           changed == Stringify(prevState) # Stringify(g1.state[m])
           cast == changed /\ Connected(mgrs, m)
           g2 == IF cast THEN PeerEmitUpdate(g1, p) ELSE g1
       IN /\ mgrs' = [g2 EXCEPT
                        !.sets = @ + 1,
                        !.last = IF Connected(mgrs, m) THEN ShallowMerge(@, p) ELSE @,
                        !.noop = @ \/ (Connected(mgrs, m) /\ ~changed)]
          /\ IF cast
             THEN /\ emitted' = [op |-> "emit", bus |-> "main", event |-> StateUpdate,
                                 pre |-> Store,
                                 log |-> EmitRun(Store, "main", StateUpdate, Throwers).log,
                                 escaped |-> FALSE]
                  /\ UNCHANGED <<busId, events, allEvents, aliased, registry, regOrder>>
             ELSE UNCHANGED busVars
    /\ UNCHANGED <<sm, pre, hooks, sb, sbRegistry, count, toGuest, toShadow, toHost, guest,
                   gLog, hist>>

\* host code calls connect('main', bus) on manager m, lines 163-190
PeerConnect(m) ==
    /\ ~Connected(mgrs, m)
    /\ mgrs' = [mgrs EXCEPT !.on = Append(@, m), !.getTimer[m] = TRUE]
    /\ events' = StOn(StOn(Store, "main", StateUpdate, UpdateH(m)),
                      "main", StateGet, GetH(m)).ev
    /\ emitted' = NoEmit
    /\ UNCHANGED <<busId, allEvents, aliased, registry, regOrder>>
    /\ UNCHANGED <<sm, pre, hooks, sb, sbRegistry, count, toGuest, toShadow, toHost, guest,
                   gLog, hist>>

\* the timer of manager m's connect fires after 50 ms, lines 185-187
PeerGetTimer(m) ==
    /\ mgrs.getTimer[m]
    /\ mgrs' = PeerGets([mgrs EXCEPT !.getTimer[m] = FALSE],
                        EmitRun(Store, "main", StateGet, Throwers).log)
    /\ emitted' = [op |-> "emit", bus |-> "main", event |-> StateGet, pre |-> Store,
                   log |-> EmitRun(Store, "main", StateGet, Throwers).log,
                   escaped |-> FALSE]
    /\ UNCHANGED <<busId, events, allEvents, aliased, registry, regOrder>>
    /\ UNCHANGED <<sm, pre, hooks, sb, sbRegistry, count, toGuest, toShadow, toHost, guest,
                   gLog, hist>>

\* the debounced notifyListeners of manager m runs, lines 168 and 252-262;
\* nobody has subscribed to these managers
PeerDebounce(m) ==
    /\ mgrs.debounce[m]
    /\ mgrs' = [mgrs EXCEPT !.debounce[m] = FALSE]
    /\ UNCHANGED <<busVars, sm, pre, hooks, sb, sbRegistry, count, toGuest, toShadow, toHost,
                   guest, gLog, hist>>

InitPeers == HostInit /\ hooks = FALSE

NextPeers ==
    \/ \E m \in Mgrs, p \in PeerPartials : PeerSetState(m, p)
    \/ \E m \in Mgrs : PeerConnect(m)
    \/ \E m \in Mgrs : PeerGetTimer(m)
    \/ \E m \in Mgrs : PeerDebounce(m)

SpecPeers == InitPeers /\ [][NextPeers]_vars

\* every handler and every state:get pull of the connected managers has run
PeersSettled == mgrs.on # << >> /\ \A m \in Mgrs : ~mgrs.getTimer[m]

\* every connected manager has, for each key that was written, the value of
\* the most recent setState call that wrote it
LastWriterWins ==
    \A m \in Mgrs, k \in Keys :
        (Connected(mgrs, m) /\ mgrs.last[k] # 0)
            => Snapshot(mgrs.state[m])[k] = mgrs.last[k]

\* C21: for StateManagers connected under the same name to the same bus, once
\* all handlers and the state:get pulls have run, every manager's value for a
\* key is the value of the most recent setState call that wrote the key, also
\* when that call changed nothing on the manager it was called on.
C21_LastWriterWins == PeersSettled => LastWriterWins

\* C21 for the runs in which every setState call changed the state of the
\* manager it was called on
C21_ExceptNoops == (PeersSettled /\ ~mgrs.noop) => LastWriterWins

\* the connected managers agree once the pulls have run
C21_Agreement ==
    PeersSettled =>
        \A m, n \in Mgrs :
            (Connected(mgrs, m) /\ Connected(mgrs, n))
                => Snapshot(mgrs.state[m]) = Snapshot(mgrs.state[n])

(***************************************************************************)
(* preloadApp, lines 875-912.  A hidden iframe is a record of pre.frames;  *)
(* its onload property holds the function that was assigned to it last.   *)
(***************************************************************************)
MaxPreloads == 2   \* preloadApp calls host code makes

PreloadMsg(n) == [type |-> "mfe-preload", id |-> n]

\* iframe.onload = f
AssignOnload(frame, f) == [frame EXCEPT !.onload = f]

\* preloadApp({name: n, url})
Preload(n) ==
    /\ Len(pre.frames) < MaxPreloads
    /\ IF sbRegistry[n] # NoSandbox
       THEN \* lines 879-881
            pre' = [pre EXCEPT !.skipped = TRUE]
       ELSE LET f0 == [name |-> n, loaded |-> FALSE, onload |-> "none", resolved |-> FALSE]
                \* line 896: the function that posts the preload envelope
                f1 == AssignOnload(f0, "post")
                \* line 908, in the Promise executor, which runs before
                \* preloadApp returns: the function that resolves the promise
                f2 == AssignOnload(f1, "resolve")
            IN pre' = [pre EXCEPT !.frames = Append(@, f2)]
    /\ UNCHANGED <<busVars, sm, mgrs, hooks, sb, sbRegistry, count, toGuest, toShadow, toHost,
                   guest, gLog, hist>>

\* the hidden iframe k has loaded: its onload function runs
PreloadLoad(k) ==
    /\ k \in 1..Len(pre.frames)
    /\ ~pre.frames[k].loaded
    /\ pre' = CASE pre.frames[k].onload = "post" ->
                     [pre EXCEPT !.frames[k].loaded = TRUE,
                                 !.posted = Append(@, [frame |-> k,
                                                       msg |-> PreloadMsg(pre.frames[k].name)])]
                 [] pre.frames[k].onload = "resolve" ->
                     [pre EXCEPT !.frames[k].loaded = TRUE, !.frames[k].resolved = TRUE]
                 [] OTHER -> [pre EXCEPT !.frames[k].loaded = TRUE]
    /\ UNCHANGED <<busVars, sm, mgrs, hooks, sb, sbRegistry, count, toGuest, toShadow, toHost,
                   guest, gLog, hist>>

(***************************************************************************)
(* SpecPreload: SpecStart with calls of preloadApp.                        *)
(***************************************************************************)
NextPreload ==
    \/ NextStart
    \/ Preload("A")
    \/ \E k \in 1..MaxPreloads : PreloadLoad(k)

SpecPreload == Init /\ [][NextPreload]_vars

\* C22: once the hidden iframe that preloadApp created for a name has
\* loaded, a preload envelope carrying the name as id has been posted to it.
C22_PreloadEnvelope ==
    \A k \in 1..Len(pre.frames) :
        pre.frames[k].loaded =>
            \E j \in 1..Len(pre.posted) :
                pre.posted[j] = [frame |-> k, msg |-> PreloadMsg(pre.frames[k].name)]

\* the second half of C22: preloadApp for a name that has a Sandbox creates
\* no iframe and posts nothing
C22_SkipsExisting ==
    [][(sbRegistry["A"] # NoSandbox /\ Preload("A"))
          => pre'.frames = pre.frames /\ pre'.posted = pre.posted]_vars

\* preloadApp never posts anything
C22_NothingPosted == pre.posted = << >>

(***************************************************************************)
(* SpecRelay: one Sandbox without lifecycle hooks from start to destroy,   *)
(* whose guest answers within the 5000 ms of mount() and emits, and host   *)
(* code that emits public and private events on the Sandbox's own bus.     *)
(***************************************************************************)
InitRelay == HostInit /\ hooks = FALSE

NextRelay ==
    \/ \E dg \in BOOLEAN : StartApp("s1", "A", dg)
    \/ IframeLoad("s1")
    \/ ShadowMountTimer("s1")
    \/ MountSettle("s1")
    \/ UnmountSettle("s1")
    \/ Destroy("s1")
    \/ \E e \in {Ping, Priv}, args \in Payloads : SandboxEmit("s1", e, args)
    \/ GuestBoot("s1")
    \/ GuestRecv("s1")
    \/ ShadowRecv("s1")
    \/ HostRecv("s1")
    \/ GuestEmit("s1", Ping, <<42>>)

SpecRelay == InitRelay /\ [][NextRelay]_vars

\* the transport of Sandbox s is established and s has not been destroyed
Established(s) == sb[s].iframe = "loaded" /\ sb[s].patched /\ ~sb[s].destroyed

TripArgs == {<< >>, <<42, 7>>}

NextTrip ==
    \/ \E dg \in BOOLEAN : StartApp("s1", "A", dg)
    \/ IframeLoad("s1")
    \/ ShadowMountTimer("s1")
    \/ MountSettle("s1")
    \/ UnmountSettle("s1")
    \/ Destroy("s1")
    \/ On("s1", Ping, "plain")
    \/ \E args \in TripArgs : SandboxEmit("s1", Ping, args)
    \/ GuestBoot("s1")
    \/ GuestRecv("s1")
    \/ ShadowRecv("s1")
    \/ HostRecv("s1")
    \/ \E args \in TripArgs : GuestEmit("s1", Ping, args)

SpecTrip == InitRelay /\ [][NextTrip]_vars

\* the calls of the guest's handlers for e with the arguments args
GuestCalls(s, e, args) ==
    [k \in 1..Len(HandlersFor(s, e)) |-> [event |-> e, args |-> args, via |-> "envelope"]]

MaxMounts == 2   \* mount commands sent to one primary iframe

\* host code calls mount() on the Sandbox (lines 575-586) after an earlier
\* mount() has returned and its timers have run
MountAgain(s) ==
    /\ sb[s].created /\ ~sb[s].destroyed
    /\ sb[s].mountPc = "done" /\ ~sb[s].shadowTimer
    /\ count[s].mountSent < MaxMounts
    /\ Apply(MountStart(World, s))
    /\ UNCHANGED <<busVars, sm, mgrs, pre, hooks, sbRegistry, toHost, guest, gLog, hist>>

NextGate ==
    \/ \E dg \in BOOLEAN : StartApp("s1", "A", dg)
    \/ IframeLoad("s1")
    \/ ReadyTimeout("s1")
    \/ ShadowMountTimer("s1")
    \/ MountSettle("s1")
    \/ MountAgain("s1")
    \/ HostRecv("s1")
    \/ GuestBoot("s1")
    \/ GuestRecv("s1")
    \/ ShadowRecv("s1")

SpecGate == Init /\ [][NextGate]_vars

C26_HooksOncePerTransition ==
    \A s \in Sandboxes :
        (hooks /\ ~sb[s].destroyed) =>
            /\ sb[s].mountPc = "done"
                  => count[s].beforeMount = 1 /\ count[s].afterMount = 1
            /\ (sb[s].unmountDone /\ sb[s].unmounting = 0)
                  => count[s].afterUnmount = count[s].beforeUnmount

\* the last part of C26 alone: taking the guest's mounted or unmounted
\* acknowledgement runs no hook
C26_AcksRunNoHook ==
    [][\A s \in Sandboxes :
          (HostRecv(s) /\ Head(toHost[s]).type = "mfe-lifecycle") => count' = count]_vars

(***************************************************************************)
(* unmount() by itself: the custom element leaves the document, or a       *)
(* second startApp call for the name unmounts the registered Sandbox,      *)
(* while the host has handlers on the Sandbox's bus.                       *)
(***************************************************************************)
NextUnmount ==
    \/ \E dg \in BOOLEAN : StartApp("s1", "A", dg)
    \/ ReplaceStarted("A", FALSE, FALSE)
    \/ \E s \in Sandboxes : IframeLoad(s)
    \/ \E s \in Sandboxes : ReadyTimeout(s)
    \/ \E s \in Sandboxes : ShadowMountTimer(s)
    \/ \E s \in Sandboxes : MountSettle(s)
    \/ \E s \in Sandboxes : ElementRemoved(s)
    \/ \E s \in Sandboxes : UnmountSettle(s)
    \/ On("s1", Ping, "plain")
    \/ OnAll("s1", "plain")
    \/ HostRecv("s1")
    \/ GuestBoot("s1")
    \/ GuestRecv("s1")

SpecUnmount == Init /\ [][NextUnmount]_vars

\* a call of unmount() that is not a no-op enters its settle interval
UnmountStarts(s) == sb'[s].unmounting > sb[s].unmounting
\* a call of unmount() leaves its settle interval and runs to its end
UnmountEnds(s) == sb'[s].unmounting < sb[s].unmounting

DestroysMounted(s) ==
    /\ ~sb[s].destroyed /\ sb'[s].destroyed
    /\ ~sb[s].unmountFlag /\ sb[s].unmounting = 0

\* C28: at the step of destroy() that removes the iframes and nulls the
\* references of a Sandbox that was not unmounted, the unmount sequence is
\* complete: beforeUnmount has run, lifecycle:unmount was sent to the primary
\* iframe, the bus has been cleared, afterUnmount has run and no unmount() is
\* left in its settle interval.
C28_DestroyUnmountsFirst ==
    [][\A s \in Sandboxes :
          DestroysMounted(s) =>
              /\ count'[s].beforeUnmount =
                     count[s].beforeUnmount + (IF hooks THEN 1 ELSE 0)
              /\ count'[s].unmountSent = count[s].unmountSent + 1
              /\ count'[s].cleared = count[s].cleared + 1
              /\ count'[s].afterUnmount =
                     count[s].afterUnmount + (IF hooks THEN 1 ELSE 0)
              /\ sb'[s].unmounting = 0
              /\ sb'[s].unmountDone]_vars

\* what destroy() does do in that step: beforeUnmount runs and
\* lifecycle:unmount is sent to the primary iframe
C28_DestroyBeginsUnmount ==
    [][\A s \in Sandboxes :
          DestroysMounted(s) =>
              /\ count'[s].beforeUnmount =
                     count[s].beforeUnmount + (IF hooks THEN 1 ELSE 0)
              /\ count'[s].unmountSent = count[s].unmountSent + 1
              /\ sb'[s].unmounting = 1]_vars

\* the bus of a destroyed Sandbox is cleared after the references were
\* nulled, and afterUnmount does not run then
C28_ClearedAfterNulling ==
    [][\A s \in Sandboxes :
          (sb[s].destroyed /\ UnmountEnds(s)) =>
              /\ sb[s].iframe = "null"
              /\ count'[s].cleared = count[s].cleared + 1
              /\ count'[s].afterUnmount = count[s].afterUnmount]_vars

\* the shadow iframe of s has a window before and after the step
ShadowLive(s) == HasShadowWindow(World, s) /\ HasShadowWindow([sb |-> sb'], s)
\* the step posts one event envelope to the primary iframe of s
EventPosted(s) ==
    /\ Len(toGuest'[s]) = Len(toGuest[s]) + 1
    /\ toGuest'[s][Len(toGuest'[s])].type = "mfe-event"
    /\ SubSeq(toGuest'[s], 1, Len(toGuest[s])) = toGuest[s]

\* event envelopes and lifecycle:unmount go to the shadow iframe in the step
\* in which they go to the primary iframe
C29_RelayedAtOnce ==
    [][\A s \in Sandboxes :
          /\ (EventPosted(s) /\ ShadowLive(s)) =>
                 toShadow'[s] = Append(toShadow[s], toGuest'[s][Len(toGuest'[s])])
          /\ (count'[s].unmountSent > count[s].unmountSent /\ ShadowLive(s)) =>
                 toShadow'[s] = Append(toShadow[s], Lifecycle("unmount"))]_vars

\* lifecycle:mount sent to the primary iframe of a Sandbox whose shadow
\* iframe has a window starts the 100 ms timer for the shadow iframe
C29_MountTimerSet ==
    [][\A s \in Sandboxes :
          (count'[s].mountSent > count[s].mountSent
              /\ HasShadowWindow([sb |-> sb'], s)) => sb'[s].shadowTimer]_vars

\* C29: a Sandbox whose shadow iframe has a window sends each event envelope
\* and each lifecycle:unmount to the shadow iframe when it sends it to the
\* primary iframe, and for each lifecycle:mount sent to the primary iframe it
\* sends one lifecycle:mount to the shadow iframe when the 100 ms timer fires
\* and the Sandbox still has its shadowIframe.
C29_ShadowGetsAll ==
    [][\A s \in Sandboxes :
          /\ (EventPosted(s) /\ ShadowLive(s)) =>
                 toShadow'[s] = Append(toShadow[s], toGuest'[s][Len(toGuest'[s])])
          /\ (count'[s].unmountSent > count[s].unmountSent /\ ShadowLive(s)) =>
                 toShadow'[s] = Append(toShadow[s], Lifecycle("unmount"))
          /\ (count'[s].mountSent > count[s].mountSent
                 /\ HasShadowWindow([sb |-> sb'], s)) => sb'[s].shadowTimer
          /\ (sb[s].shadowTimer /\ ~sb'[s].shadowTimer /\ sb[s].shadowIframe # "null") =>
                 /\ count'[s].shadowMountSent = count[s].shadowMountSent + 1
                 /\ toShadow'[s] = Append(toShadow[s], Lifecycle("mount"))]_vars

\* the custom element that Sandbox s created enters the document
ElementInserted(s) == ~sb[s].element /\ sb'[s].element
\* the custom element that Sandbox s created leaves the document
ElementLeaves(s) == sb[s].element /\ ~sb'[s].element

\* C30: when the custom element that a Sandbox created enters the document,
\* no other Sandbox gets a shadow iframe, and when it leaves the document, no
\* unmount() begins on another Sandbox.
C30_ElementOwnsSandbox ==
    [][\A s \in Sandboxes :
          /\ ElementInserted(s) =>
                 (sb'[Other(s)].shadowIframe = "attached"
                      => sb[Other(s)].shadowIframe = "attached")
          /\ ElementLeaves(s) => ~UnmountStarts(Other(s))]_vars

\* the insertion half alone
C30_ShadowIframeOnOwner ==
    [][\A s \in Sandboxes :
          ElementInserted(s) =>
              (sb'[Other(s)].shadowIframe = "attached"
                   => sb[Other(s)].shadowIframe = "attached")]_vars

\* the removal half alone
C30_RemovalUnmountsOwner ==
    [][\A s \in Sandboxes : ElementLeaves(s) => ~UnmountStarts(Other(s))]_vars

\* the one-shot state:get emission of manager m's connect fires
PullFires(m) == mgrs.getTimer[m] /\ ~mgrs'.getTimer[m]
\* n was connected before m
ConnectedBefore(g, n, m) ==
    /\ Connected(g, n) /\ Connected(g, m)
    /\ IndexOf(g.on, n) < IndexOf(g.on, m)

\* C31: when the one-shot state:get emission of a manager fires that
\* connected to the bus after another manager, the two managers' snapshots
\* are equal afterwards and hold every key that either of them held; the
\* emission starts no further state:get emission.
C31_PullOnConnect ==
    [][\A m, n \in Mgrs :
          (PullFires(m) /\ ConnectedBefore(mgrs, n, m)) =>
              /\ Snapshot(mgrs'.state[m]) = Snapshot(mgrs'.state[n])
              /\ \A k \in Keys :
                     (HasKey(mgrs.state[m], k) \/ HasKey(mgrs.state[n], k))
                         => (HasKey(mgrs'.state[m], k) /\ HasKey(mgrs'.state[n], k))
              /\ \A x \in Mgrs : mgrs'.getTimer[x] => (mgrs.getTimer[x] /\ x # m)]_vars

\* the pull of the manager that connected second has run, and the two
\* managers hold both keys, with the first manager's value for the key that
\* both had written
C31_Witness ==
    /\ mgrs.on = <<"m1", "m2">>
    /\ ~mgrs.getTimer["m2"] /\ mgrs.getTimer["m1"]
    /\ emitted.op = "emit" /\ emitted.event = StateGet
    /\ mgrs.sets >= 2
    /\ mgrs.state["m1"] = <<<<"a", 1>>, <<"b", 1>>>>
    /\ mgrs.state["m2"] = <<<<"a", 1>>, <<"b", 1>>>>
    /\ mgrs.last["a"] = 0 /\ mgrs.last["b"] = 0

(***************************************************************************)
(* The two bus objects of a guest.  Both keep their handlers in            *)
(* window.__MFE_EVENT_HANDLERS, which guest[s].handlers stands for.        *)
(***************************************************************************)
MaxGuestRegs == 3   \* handlers in window.__MFE_EVENT_HANDLERS

\* guest code calls $on(event, callback) on the bus that initChildApp
\* returned, lines 1124-1143, with the callback h
GuestOn(s, h) ==
    /\ guest[s].listening
    /\ Len(guest[s].handlers) < MaxGuestRegs
    /\ guest' = [guest EXCEPT ![s].handlers = Append(@, h)]
    /\ UNCHANGED <<busVars, sm, mgrs, pre, hooks, sb, sbRegistry, count, toGuest, toShadow,
                   toHost, gLog, hist>>

\* guest code calls window.__MFE.bus.$on(event, callback), lines 975-988;
\* the init envelope has created window.__MFE (lines 947-950)
GuestOnWindow(s, h) ==
    /\ guest[s].listening /\ guest[s].inited
    /\ Len(guest[s].handlers) < MaxGuestRegs
    /\ guest' = [guest EXCEPT ![s].handlers =
                    IF Includes(HandlersFor(s, SubscribedTo(h)), h) THEN @ ELSE Append(@, h)]
    /\ UNCHANGED <<busVars, sm, mgrs, pre, hooks, sb, sbRegistry, count, toGuest, toShadow,
                   toHost, gLog, hist>>

NextGuestBus ==
    \/ \E dg \in BOOLEAN : StartApp("s1", "A", dg)
    \/ IframeLoad("s1")
    \/ ReadyTimeout("s1")
    \/ ShadowMountTimer("s1")
    \/ MountSettle("s1")
    \/ \E args \in Payloads : HostEmit(Ping, args)
    \/ HostRecv("s1")
    \/ GuestBoot("s1")
    \/ GuestRecv("s1")
    \/ \E args \in Payloads : GuestEmit("s1", Ping, args)
    \/ GuestOn("s1", "g")
    \/ GuestOnWindow("s1", "g")
    \/ ShadowRecv("s1")

SpecGuestBus == InitRelay /\ [][NextGuestBus]_vars

\* the callbacks registered for event e in the guest of s
GuestCallbacks(s, e) == {HandlersFor(s, e)[k] : k \in 1..Len(HandlersFor(s, e))}
\* the guest of s runs its handlers for an event: a delivered envelope or an
\* emission of its own
GuestDelivers(s) == Len(gLog'[s]) > Len(gLog[s])

\* C32: whenever the guest runs its handlers for an event, the number of
\* calls is the number of different callbacks registered for the event: a
\* callback registered twice is called once.
C32_GuestBusIdempotent ==
    [][\A s \in Sandboxes :
          GuestDelivers(s) =>
              Len(gLog'[s]) - Len(gLog[s]) =
                  Cardinality(GuestCallbacks(s, gLog'[s][Len(gLog'[s])].event))]_vars

\* the host takes an event envelope that the guest of s posted, and its
\* handler admits it
HostTakesGuestEvent(s) ==
    /\ HostRecv(s) /\ Admits(s, "primary")
    /\ Head(toHost[s]).type = "mfe-event" /\ Head(toHost[s]).event # << >>
\* the guest of s takes an event envelope
GuestTakesEvent(s) ==
    /\ GuestRecv(s) /\ guest[s].listening
    /\ Head(toGuest[s]).type = "mfe-event"

\* C33: an emission of the guest calls each handler the guest registered for
\* the event once; the host replays the event on the Sandbox's bus and posts
\* no envelope for it to the guest that emitted it, and the guest answers a
\* delivered event with no envelope.
C33_NoEcho ==
    [][\A s \in Sandboxes :
          /\ (\E args \in Payloads : GuestEmit(s, Ping, args)) =>
                 Len(gLog'[s]) = Len(gLog[s]) + Len(HandlersFor(s, Ping))
          /\ HostTakesGuestEvent(s) =>
                 /\ emitted'.op = "emit" /\ emitted'.bus = s
                 /\ toGuest'[s] = toGuest[s]
          /\ GuestTakesEvent(s) => toHost'[s] = toHost[s]]_vars

\* what does hold: one emission of the guest makes one envelope to the host,
\* the host's replay makes one envelope to the guest, and the guest answers
\* that one with none
C33_NoPingPong ==
    [][\A s \in Sandboxes :
          /\ (\E args \in Payloads : GuestEmit(s, Ping, args)) =>
                 Len(toHost'[s]) = Len(toHost[s]) + 1
          /\ HostTakesGuestEvent(s) =>
                 /\ toGuest'[s] = Append(toGuest[s], Head(toHost[s]))
                 /\ toHost'[s] = Tail(toHost[s])
          /\ GuestTakesEvent(s) => toHost'[s] = toHost[s]]_vars

\* in the messages q that wait at a window, no lifecycle:mount comes after a
\* lifecycle:unmount
MountBeforeUnmount(q) ==
    \A i, j \in 1..Len(q) :
        (q[i] = Lifecycle("unmount") /\ q[j] = Lifecycle("mount")) => j < i

\* C34: once lifecycle:unmount has been sent to the primary iframe of a
\* Sandbox, no lifecycle:mount is sent to it, and among the messages that
\* wait at the primary and at the shadow iframe no lifecycle:mount comes
\* after a lifecycle:unmount.
C34_NoMountAfterUnmount ==
    [][\A s \in Sandboxes :
          /\ count[s].unmountSent > 0 => count'[s].mountSent = count[s].mountSent
          /\ MountBeforeUnmount(toGuest'[s])
          /\ MountBeforeUnmount(toShadow'[s])]_vars

\* C35: in every reachable state, no Sandbox has both mountFlag and
\* unmountFlag true.
C35_FlagsExclusive == \A s \in Sandboxes : ~(sb[s].mountFlag /\ sb[s].unmountFlag)

\* the flags are both true only after an acknowledgement of the guest was
\* handled: mount() sets neither, and unmount() sets them to false and true
C35_OnlyByAcknowledgement ==
    [][\A s \in Sandboxes :
          (~(sb[s].mountFlag /\ sb[s].unmountFlag)
              /\ sb'[s].mountFlag /\ sb'[s].unmountFlag)
             => (HostRecv(s) /\ Head(toHost[s]).type = "mfe-lifecycle")]_vars

(***************************************************************************)
(* The destroy handles of startApp (line 869), called on either Sandbox    *)
(* of a name that was started twice.                                       *)
(***************************************************************************)
NextHandle ==
    \/ \E dg \in BOOLEAN : StartApp("s1", "A", dg)
    \/ \E dg \in BOOLEAN : ReplaceStarted("A", dg, FALSE)
    \/ \E s \in Sandboxes : IframeLoad(s)
    \/ \E s \in Sandboxes : ReadyTimeout(s)
    \/ \E s \in Sandboxes : ShadowMountTimer(s)
    \/ \E s \in Sandboxes : MountSettle(s)
    \/ \E s \in Sandboxes : UnmountSettle(s)
    \/ \E s \in Sandboxes : Destroy(s)
    \/ DestroyAbsent("A")

SpecHandle == Init /\ [][NextHandle]_vars

\* C36: destroy() called through the handle of a Sandbox that has been
\* replaced under its name leaves the registry entry of the newer Sandbox in
\* place.
C36_HandleOwnsEntry ==
    [][\A s \in Sandboxes :
          (Destroy(s) /\ sbRegistry[Name(s)] = Other(s))
             => sbRegistry'[Name(s)] = Other(s)]_vars

\* the handle of the Sandbox that the registry holds does evict it
C36_HandleEvictsOwn ==
    [][\A s \in Sandboxes :
          (Destroy(s) /\ sbRegistry[Name(s)] = s)
             => sbRegistry'[Name(s)] = NoSandbox]_vars

(***************************************************************************)
(* The ready handshake with reliable delivery: the iframe loads, the guest *)
(* runs initChildApp, and every posted message is taken.  The 5000 ms      *)
(* timer of mount() may fire; nothing makes it fire.                       *)
(***************************************************************************)
NextHandshake ==
    \/ \E dg \in BOOLEAN : StartApp("s1", "A", dg)
    \/ IframeLoad("s1")
    \/ ReadyTimeout("s1")
    \/ ShadowMountTimer("s1")
    \/ MountSettle("s1")
    \/ HostRecv("s1")
    \/ GuestBoot("s1")
    \/ GuestRecv("s1")
    \/ ShadowRecv("s1")

SpecHandshake ==
    /\ Init /\ [][NextHandshake]_vars
    /\ WF_vars(IframeLoad("s1"))
    /\ WF_vars(GuestBoot("s1"))
    /\ WF_vars(GuestRecv("s1"))
    /\ WF_vars(HostRecv("s1"))

\* C37: in whichever order the host's listener (at the iframe's load) and
\* the guest's listener (at initChildApp) are installed, the host takes a
\* ready envelope of the guest in the end, and a mount() that waits for ready
\* goes on when it is taken; a ready envelope that the host takes before its
\* listener is installed changes nothing.
C37_ReadyHandshake ==
    /\ sb["s1"].created ~> sb["s1"].ready
    /\ [][(HostRecv("s1") /\ Head(toHost["s1"]) = ReadyMsg) =>
             IF Admits("s1", "primary")
             THEN /\ sb'["s1"].ready
                  /\ sb["s1"].mountPc = "waitReady" => sb'["s1"].mountPc = "settle"
             ELSE sb' = sb /\ count' = count /\ toGuest' = toGuest]_vars

\* the host's init envelope came before the guest listened and was lost; the
\* ready envelope of the guest's listener installation was taken and mount()
\* went on without the timer
C37_Witness ==
    /\ sb["s1"].ready /\ sb["s1"].mountPc = "done"
    /\ guest["s1"].listening /\ ~guest["s1"].inited
    /\ toGuest["s1"] = << >> /\ toHost["s1"] = << >>
    /\ count["s1"].mountSent = 1

\* C38: the guest in the primary iframe takes a lifecycle:mount envelope only
\* after it has taken an init envelope.
C38_InitBeforeMount ==
    [][\A s \in Sandboxes :
          (GuestRecv(s) /\ guest[s].listening /\ Head(toGuest[s]) = Lifecycle("mount"))
             => guest[s].inited]_vars

\* the window of the shadow iframe is sent no init envelope at all, so a
\* lifecycle:mount that it takes never follows one
C38_ShadowGetsNoInit ==
    \A s \in Sandboxes : \A k \in 1..Len(toShadow[s]) : toShadow[s][k].type # "mfe-init"

(***************************************************************************)
(* A guest whose code posts a lifecycle acknowledgement that no command    *)
(* asked for.                                                              *)
(***************************************************************************)
\* guest code calls window.parent.postMessage({type: 'mfe-lifecycle',
\* action: 'unmounted'}, '*'), the call of lines 1079 and 1082, on its own
GuestAnnounces(s) ==
    /\ guest[s].listening
    /\ guest[s].emits < MaxGuestEmits
    /\ guest' = [guest EXCEPT ![s].emits = @ + 1]
    /\ toHost' = [toHost EXCEPT ![s] = Append(@, Lifecycle("unmounted"))]
    /\ UNCHANGED <<busVars, sm, mgrs, pre, hooks, sb, sbRegistry, count, toGuest, toShadow,
                   gLog, hist>>

NextNoop ==
    \/ \E dg \in BOOLEAN : StartApp("s1", "A", dg)
    \/ IframeLoad("s1")
    \/ ReadyTimeout("s1")
    \/ ShadowMountTimer("s1")
    \/ MountSettle("s1")
    \/ UnmountSettle("s1")
    \/ Destroy("s1")
    \/ ElementRemoved("s1")
    \/ HostRecv("s1")
    \/ GuestBoot("s1")
    \/ GuestRecv("s1")
    \/ GuestAnnounces("s1")
    \/ ShadowRecv("s1")

SpecNoop == Init /\ [][NextNoop]_vars

\* unmount() is called on s, by destroy() or by the custom element's
\* disconnectedCallback, and returns at its guard (line 676)
UnmountNoop(s) ==
    /\ Destroy(s) \/ ElementRemoved(s)
    /\ sb[s].unmountFlag

\* C39: when a call of unmount() returns at its guard, lifecycle:unmount has
\* been sent for the Sandbox and its bus has been cleared.
C39_NoopMeansTornDown ==
    [][\A s \in Sandboxes :
          UnmountNoop(s) => (count[s].unmountSent > 0 /\ count[s].cleared > 0)]_vars

(***************************************************************************)
(* Overlapping startApp calls for one name: the second call is made while  *)
(* the first waits for the iframe's load, waits for ready, or settles.     *)
(***************************************************************************)
\* startApp for a registered name whose first startApp call has not returned
StartOverlapping(n, dg) ==
    /\ sbRegistry[n] # NoSandbox
    /\ sb[sbRegistry[n]].mountPc # "done"
    /\ StartReplace(n, dg, FALSE)

NextOverlap ==
    \/ \E dg \in BOOLEAN : StartApp("s1", "A", dg)
    \/ \E dg \in BOOLEAN : StartOverlapping("A", dg)
    \/ \E s \in Sandboxes : IframeLoad(s)
    \/ \E s \in Sandboxes : ReadyTimeout(s)
    \/ \E s \in Sandboxes : ShadowMountTimer(s)
    \/ \E s \in Sandboxes : MountSettle(s)
    \/ \E s \in Sandboxes : UnmountSettle(s)
    \/ HostRecv("s1")
    \/ GuestBoot("s1")
    \/ GuestRecv("s1")

SpecOverlap == Init /\ [][NextOverlap]_vars

\* both startApp calls have returned, and no unmount() and no timer of
\* mount() is pending
BothStartsDone ==
    /\ \A s \in Sandboxes :
          /\ sb[s].created /\ sb[s].mountPc = "done"
          /\ sb[s].unmounting = 0 /\ ~sb[s].shadowTimer

\* C40: once two overlapping startApp calls for a name have both returned,
\* the registry maps the name to the second Sandbox, which was sent
\* lifecycle:mount and has not been unmounted; the first Sandbox has been
\* unmounted and has no iframe in the document; and a Sandbox whose unmount()
\* has completed is sent no lifecycle:mount.
C40_OverlappingStarts ==
    [][/\ BothStartsDone' =>
            /\ sbRegistry'["A"] = "s2"
            /\ count'["s2"].mountSent > 0 /\ ~sb'["s2"].unmountFlag
            /\ sb'["s1"].unmountDone /\ ~HasWindow([sb |-> sb'], "s1")
       /\ \A s \in Sandboxes :
             sb[s].unmountDone => count'[s].mountSent = count[s].mountSent]_vars

\* what does hold: the registry maps the name to the second Sandbox, and
\* the first Sandbox's unmount() has run to its end
C40_SecondRegistered ==
    BothStartsDone => (sbRegistry["A"] = "s2" /\ sb["s1"].unmountDone)

====
